---- MODULE Spec2Model ----
(***************************************************************************)
(* A model of scripts/import-isfdb-dump.py: the reconciliation engine      *)
(* (import_to_nachoseries, run_bulk_import) working on the destination     *)
(* store inside one sqlite3 transaction, the tuple parser                  *)
(* (parse_mysql_tuples, parse_mysql_value) and the two catalog backends    *)
(* (ISFDBSqlite, ISFDBDump).                                               *)
(*                                                                         *)
(* Text is a sequence of one-character strings.  SQL NULL, Python None and *)
(* the empty string are 0 in a numeric column and "" in a text column:     *)
(* the code tests these columns by truthiness only.                        *)
(***************************************************************************)
EXTENDS Integers, Sequences, FiniteSets, TLC

VARIABLES
    \* ---- destination store, as seen by the run's connection ----
    series, series_book, source_data,
    \* ---- what is durable in the store file (committed) ----
    durable,
    \* ---- one run of import_to_nachoseries / run_bulk_import ----
    pc, dry_run, idx, parent_stub_ids, counts, now, log,
    \* ---- the run's input and the store's query plan ----
    entries, plan,
    \* ---- parse_mysql_tuples ----
    line, data, i, tuples, values, current, in_string, escape_next, ppc,
    \* ---- parse_mysql_value on one field ----
    val_str, val_out,
    \* ---- the catalog behind both backends, and one query on each ----
    titles_table, q_series_ids, res_sqlite, res_dump,
    \* ---- the publication tables, and find_pubs_for_titles on each ----
    pubs_table, pub_content, q_title_ids, pub_info_sqlite, pub_info_dump,
    \* ---- main and run_import: the catalog's titles, the destination file,
    \* ---- the command line, and what the run did ----
    catalog_titles, store_exists, rpc, target_names, merge_children, from_db,
    found_series, series_data, trace,
    \* ---- normalize on a name and on a variant of it ----
    norm_x, norm_y, norm_out,
    \* ---- is_excluded_title on one title ----
    title_in, title_out,
    \* ---- one identifier-set query of the indexed backend ----
    q_name, q_ids, table_ids, statements, q_result,
    \* ---- find_series_ids of both backends on one series table ----
    find_names, series_table, found_sqlite, found_dump

storeVars == <<series, series_book, source_data, durable>>
runVars == <<pc, dry_run, idx, parent_stub_ids, counts, now, log, entries, plan>>
parseVars == <<line, data, i, tuples, values, current, in_string, escape_next, ppc>>
valueVars == <<val_str, val_out>>
backendVars == <<titles_table, q_series_ids, res_sqlite, res_dump>>
pubsVars == <<pubs_table, pub_content, q_title_ids, pub_info_sqlite, pub_info_dump>>
\* the components of the later sections
resolveVars == <<catalog_titles, store_exists, rpc, target_names, merge_children,
                 from_db, found_series, series_data, trace>>
normVars == <<norm_x, norm_y, norm_out>>
titleVars == <<title_in, title_out>>
batchVars == <<q_name, q_ids, table_ids, statements, q_result>>
findVars == <<find_names, series_table, found_sqlite, found_dump>>
laterVars == <<pubsVars, resolveVars, normVars, titleVars, batchVars, findVars>>
vars == <<storeVars, runVars, parseVars, valueVars, backendVars, laterVars>>
\* what a run of the import engine never touches
notRun == <<parseVars, valueVars, backendVars, laterVars>>

(***************************************************************************)
(* Bounds of the model.                                                    *)
(***************************************************************************)
MaxEntries == 2
MaxInitRows == 2
MaxRuns == 2

(***************************************************************************)
(* Generic helpers.                                                        *)
(***************************************************************************)
Max(S) == CHOOSE x \in S : \A y \in S : y <= x
Min(S) == CHOOSE x \in S : \A y \in S : x <= y
Range(s) == {s[k] : k \in 1..Len(s)}
IsPrefix(s, t) == Len(s) <= Len(t) /\ SubSeq(t, 1, Len(s)) = s

\* All sequences over S of length 0..n.
SeqsUpTo(S, n) == UNION {[1..k -> S] : k \in 0..n}

(***************************************************************************)
(* normalize(text): lowercase, drop every character that is neither a word *)
(* character nor whitespace, collapse whitespace runs, trim.               *)
(***************************************************************************)
IsSpace(c) == c \in {" ", "\t", "\n", "\r"}

UpperChars ==
    << "A", "B", "C", "D", "E", "F", "G", "H", "I", "J", "K", "L", "M",
       "N", "O", "P", "Q", "R", "S", "T", "U", "V", "W", "X", "Y", "Z" >>
LowerChars ==
    << "a", "b", "c", "d", "e", "f", "g", "h", "i", "j", "k", "l", "m",
       "n", "o", "p", "q", "r", "s", "t", "u", "v", "w", "x", "y", "z" >>
Digits == << "0", "1", "2", "3", "4", "5", "6", "7", "8", "9" >>

IsDigit(c) == \E k \in 1..Len(Digits) : Digits[k] = c

\* The three forms of the Greek letter sigma, each one character: the
\* capital U+03A3, the small U+03C3 and the final small U+03C2.
CapitalSigma == "U+03A3"
SmallSigma == "U+03C3"
FinalSigma == "U+03C2"

\* A letter of Latin-1 outside ASCII, each form one character: the capital
\* E with acute U+00C9 and the small U+00E9.
CapitalEAcute == "U+00C9"
SmallEAcute == "U+00E9"

IsLetter(c) ==
    \/ \E k \in 1..Len(UpperChars) : UpperChars[k] = c \/ LowerChars[k] = c
    \/ c \in {CapitalSigma, SmallSigma, FinalSigma, CapitalEAcute, SmallEAcute}

\* \w of the regular expression on a str: letters, digits and "_"
IsWord(c) ==
    \/ IsLetter(c)
    \/ IsDigit(c)
    \/ c = "_"

\* str.lower() on one character of ASCII
LowerChar(c) ==
    IF \E k \in 1..Len(UpperChars) : UpperChars[k] = c
    THEN LowerChars[CHOOSE k \in 1..Len(UpperChars) : UpperChars[k] = c]
    ELSE c

\* The characters str.lower() looks through when it decides whether a
\* capital sigma ends a word, of the characters used here.
IsCaseIgnorable(c) == c \in {"'", ".", ":"}

\* str.lower() on the capital sigma at position k: the final form when a
\* letter stands before it and no letter after it, case-ignorable characters
\* looked through on both sides; the small form otherwise.
LowerSigma(s, k) ==
    LET before == {j \in 1..(k - 1) : ~IsCaseIgnorable(s[j])}
        after == {j \in (k + 1)..Len(s) : ~IsCaseIgnorable(s[j])}
    IN  IF /\ before # {} /\ IsLetter(s[Max(before)])
           /\ (after = {} \/ ~IsLetter(s[Min(after)]))
        THEN FinalSigma
        ELSE SmallSigma

\* str.lower()
Lower(s) ==
    [k \in 1..Len(s) |-> IF s[k] = CapitalSigma THEN LowerSigma(s, k)
                         ELSE IF s[k] = CapitalEAcute THEN SmallEAcute
                         ELSE LowerChar(s[k])]

RECURSIVE StripNonWord(_)
StripNonWord(s) ==
    IF s = <<>> THEN <<>>
    ELSE IF IsWord(Head(s)) \/ IsSpace(Head(s))
         THEN <<Head(s)>> \o StripNonWord(Tail(s))
         ELSE StripNonWord(Tail(s))

\* re.sub(r'\s+', ' ', text)
RECURSIVE CollapseSpace(_)
CollapseSpace(s) ==
    IF s = <<>> THEN <<>>
    ELSE IF IsSpace(Head(s))
         THEN IF Len(s) > 1 /\ IsSpace(s[2])
              THEN CollapseSpace(Tail(s))
              ELSE <<" ">> \o CollapseSpace(Tail(s))
         ELSE <<Head(s)>> \o CollapseSpace(Tail(s))

RECURSIVE LStrip(_)
LStrip(s) == IF s # <<>> /\ IsSpace(Head(s)) THEN LStrip(Tail(s)) ELSE s

RECURSIVE RStrip(_)
RStrip(s) ==
    IF s # <<>> /\ IsSpace(s[Len(s)]) THEN RStrip(SubSeq(s, 1, Len(s) - 1)) ELSE s

\* A faulty variant of Strip: trailing whitespace is kept.
StripLeftOnly(s) == LStrip(s)

Strip(s) == RStrip(LStrip(s))

normalize(text) ==
    IF text = <<>> THEN <<>>
    ELSE Strip(CollapseSpace(StripNonWord(Lower(text))))

(***************************************************************************)
(* The source catalog the resolver read, and the resolved entries built    *)
(* from it.  Series 1, 2, 4 have titles with one normalized name, series 2 *)
(* names series 1 as its parent, series 1 and 4 name series 3 as theirs,   *)
(* series 3 names a parent that is not in the catalog.                     *)
(***************************************************************************)
NoParent == [series_id |-> 0, series_title |-> <<>>]

Catalog ==
    { [series_id |-> 1, series_title |-> <<"A">>, series_parent |-> 3],
      [series_id |-> 2, series_title |-> <<"a", "!">>, series_parent |-> 1],
      [series_id |-> 3, series_title |-> <<"b">>, series_parent |-> 9],
      [series_id |-> 4, series_title |-> <<"!", "a">>, series_parent |-> 3] }

CatalogIds == {s.series_id : s \in Catalog}
CatalogRow(id) == CHOOSE s \in Catalog : s.series_id = id

\* The resolved books of a series, already sorted (year 0: no year known).
BooksOf(id) ==
    CASE id = 1 -> << [title |-> <<"x">>, position |-> 1, author |-> "Ann", year |-> 2001],
                      [title |-> <<"B">>, position |-> 2, author |-> "Bob", year |-> 0],
                      [title |-> <<"c">>, position |-> 3, author |-> "", year |-> 1995] >>
      [] id = 2 -> << [title |-> <<"x", "!">>, position |-> 1, author |-> "Bob", year |-> 1999] >>
      [] id = 4 -> << [title |-> <<"d">>, position |-> 1, author |-> "Ann", year |-> 2010],
                      [title |-> <<"e">>, position |-> 2, author |-> "Bob", year |-> 2011],
                      [title |-> <<"f">>, position |-> 3, author |-> "Bob", year |-> 2012] >>
      [] OTHER  -> << [title |-> <<"n">>, position |-> 0, author |-> "", year |-> 0] >>

\* entry['parent_info'] = parents[s['series_parent']] when that parent was resolved
ParentInfo(s) ==
    IF s.series_parent # 0 /\ s.series_parent \in CatalogIds
    THEN [series_id |-> s.series_parent,
          series_title |-> CatalogRow(s.series_parent).series_title]
    ELSE NoParent

EntryOf(id) ==
    [series_id |-> id,
     series_title |-> CatalogRow(id).series_title,
     series_parent |-> CatalogRow(id).series_parent,
     books |-> BooksOf(id),
     parent_info |-> ParentInfo(CatalogRow(id))]

\* Lists of distinct catalog series, in the order the backend returned them.
EntryLists ==
    {l \in SeqsUpTo(CatalogIds, MaxEntries) :
        \A j, k \in 1..Len(l) : j # k => l[j] # l[k]}

(***************************************************************************)
(* primary_author = max(author_counts, key=author_counts.get): the first   *)
(* key, in insertion order, with the largest count.                        *)
(***************************************************************************)
AuthorCount(books, a) == Cardinality({k \in 1..Len(books) : books[k].author = a})
FirstSeen(books, a) == Min({k \in 1..Len(books) : books[k].author = a})

\* A faulty variant of PrimaryAuthor: the author of the first book that has one.
PrimaryAuthorFirstSeen(books) ==
    LET with == {k \in 1..Len(books) : books[k].author # ""}
    IN  IF with = {} THEN "" ELSE books[Min(with)].author

PrimaryAuthor(books) ==
    LET authors == {books[k].author : k \in 1..Len(books)} \ {""}
    IN  IF authors = {} THEN ""
        ELSE CHOOSE a \in authors :
                \A b \in authors \ {a} :
                    \/ AuthorCount(books, a) > AuthorCount(books, b)
                    \/ /\ AuthorCount(books, a) = AuthorCount(books, b)
                       /\ FirstSeen(books, a) < FirstSeen(books, b)

(***************************************************************************)
(* The destination store.  A table is the sequence of its rows in rowid    *)
(* order; rows are only ever appended.  cursor.fetchone() on a query with  *)
(* no ORDER BY returns the first row of the access path: the first         *)
(* matching row in rowid order for a one-column lookup or a table scan,    *)
(* and for the two-column OR either that (plan "scan") or the first        *)
(* external-identifier match before any name match (plan "index").         *)
(***************************************************************************)
Plans == {"scan", "index"}

FirstIdx(ser, Match(_)) ==
    IF \E k \in 1..Len(ser) : Match(ser[k])
    THEN Min({k \in 1..Len(ser) : Match(ser[k])})
    ELSE 0

\* SELECT ... FROM series WHERE isfdb_id = ?
SelectByIsfdb(ser, isfdb) == FirstIdx(ser, LAMBDA r : r.isfdb_id = isfdb)

\* SELECT ... FROM series WHERE name_normalized = ?
SelectByName(ser, norm) == FirstIdx(ser, LAMBDA r : r.name_normalized = norm)

\* SELECT ... FROM series WHERE isfdb_id = ? OR name_normalized = ?
SelectByIsfdbOrName(ser, isfdb, norm, qplan) ==
    IF qplan = "scan"
    THEN FirstIdx(ser, LAMBDA r : r.isfdb_id = isfdb \/ r.name_normalized = norm)
    ELSE IF SelectByIsfdb(ser, isfdb) # 0
         THEN SelectByIsfdb(ser, isfdb)
         ELSE SelectByName(ser, norm)

\* UPDATE series SET isfdb_id = ?, updated_at = ? WHERE id = ?
UpdateIsfdb(ser, id, isfdb, t) ==
    [k \in 1..Len(ser) |->
        IF ser[k].id = id
        THEN [ser[k] EXCEPT !.isfdb_id = isfdb, !.updated_at = t]
        ELSE ser[k]]

\* UPDATE series SET parent_series_id = ?, updated_at = ? WHERE id = ?
UpdateParent(ser, id, parent, t) ==
    [k \in 1..Len(ser) |->
        IF ser[k].id = id
        THEN [ser[k] EXCEPT !.parent_series_id = parent, !.updated_at = t]
        ELSE ser[k]]

\* str(uuid.uuid4()): an identifier no row and no reference holds yet.
UsedIds(ser, cache) ==
    {0} \cup {ser[k].id : k \in 1..Len(ser)}
        \cup {ser[k].parent_series_id : k \in 1..Len(ser)}
        \cup {cache[p] : p \in DOMAIN cache}
uuid4(ser, cache) == Max(UsedIds(ser, cache)) + 1

\* A faulty variant of CachePut: the mapping is not remembered.
CachePutForgets(cache, key, v) == cache

CachePut(cache, key, v) ==
    [p \in DOMAIN cache \cup {key} |-> IF p = key THEN v ELSE cache[p]]

\* The parent stub of import_to_nachoseries.resolve_parent.
ParentStubRow(id, parent, primary_author, t) ==
    [id |-> id, name |-> parent.series_title,
     name_normalized |-> normalize(parent.series_title),
     author |-> primary_author, total_books |-> 0,
     year_start |-> 0, year_end |-> 0, confidence |-> 90, verified |-> 0,
     isfdb_id |-> parent.series_id, created_at |-> t, updated_at |-> t,
     parent_series_id |-> 0]

\* The parent stub of run_bulk_import.
BulkStubRow(id, parent, t) ==
    [id |-> id, name |-> parent.series_title,
     name_normalized |-> normalize(parent.series_title),
     author |-> "", total_books |-> 0,
     year_start |-> 0, year_end |-> 0, confidence |-> 50, verified |-> 0,
     isfdb_id |-> parent.series_id, created_at |-> t, updated_at |-> t,
     parent_series_id |-> 0]

Years(books) == {books[k].year : k \in 1..Len(books)} \ {0}

\* A faulty variant of NewSeriesRow: the year range is taken over every book,
\* a book without a year counting as the year 0.
NewSeriesRowYearsOfAll(id, entry, primary_author, parent_ns_id, t) ==
    [id |-> id, name |-> entry.series_title,
     name_normalized |-> normalize(entry.series_title),
     author |-> primary_author, total_books |-> Len(entry.books),
     year_start |-> Min({entry.books[k].year : k \in 1..Len(entry.books)}),
     year_end |-> Max({entry.books[k].year : k \in 1..Len(entry.books)}),
     confidence |-> 95, verified |-> 0,
     isfdb_id |-> entry.series_id, created_at |-> t, updated_at |-> t,
     parent_series_id |-> parent_ns_id]

\* The row of a newly inserted series.
NewSeriesRow(id, entry, primary_author, parent_ns_id, t) ==
    [id |-> id, name |-> entry.series_title,
     name_normalized |-> normalize(entry.series_title),
     author |-> primary_author, total_books |-> Len(entry.books),
     year_start |-> IF Years(entry.books) = {} THEN 0 ELSE Min(Years(entry.books)),
     year_end |-> IF Years(entry.books) = {} THEN 0 ELSE Max(Years(entry.books)),
     confidence |-> 95, verified |-> 0,
     isfdb_id |-> entry.series_id, created_at |-> t, updated_at |-> t,
     parent_series_id |-> parent_ns_id]

BookRows(series_id, books, t) ==
    [k \in 1..Len(books) |->
        [series_id |-> series_id, position |-> books[k].position,
         title |-> books[k].title, title_normalized |-> normalize(books[k].title),
         author |-> books[k].author, year_published |-> books[k].year,
         confidence |-> 95, created_at |-> t, updated_at |-> t]]

SourceRow(series_id, entry, t) ==
    [series_id |-> series_id, source |-> "isfdb-dump", raw_data |-> entry.series_id,
     book_count |-> Len(entry.books), fetched_at |-> t]

(***************************************************************************)
(* resolve_parent(entry): the destination id of the entry's parent, with   *)
(* the table and the run's cache as it leaves them.                        *)
(***************************************************************************)
ParentByName(ser, cache, parent, dry, t) ==
    LET j == SelectByName(ser, normalize(parent.series_title))
    IN  [ret |-> ser[j].id,
         ser |-> IF ser[j].isfdb_id = 0 /\ ~dry
                 THEN UpdateIsfdb(ser, ser[j].id, parent.series_id, t)
                 ELSE ser,
         cache |-> CachePut(cache, parent.series_id, ser[j].id),
         stub |-> FALSE]

\* A faulty variant of ParentStub: the stub is inserted in a preview too.
ParentStubInPreview(ser, cache, parent, primary_author, dry, t) ==
    LET new_parent_id == uuid4(ser, cache)
    IN  [ret |-> new_parent_id,
         ser |-> Append(ser, ParentStubRow(new_parent_id, parent, primary_author, t)),
         cache |-> CachePut(cache, parent.series_id, new_parent_id),
         stub |-> TRUE]

ParentStub(ser, cache, parent, primary_author, dry, t) ==
    LET new_parent_id == uuid4(ser, cache)
    IN  [ret |-> new_parent_id,
         ser |-> IF ~dry
                 THEN Append(ser, ParentStubRow(new_parent_id, parent, primary_author, t))
                 ELSE ser,
         cache |-> CachePut(cache, parent.series_id, new_parent_id),
         stub |-> TRUE]

resolve_parent(ser, cache, entry, primary_author, dry, t) ==
    LET parent == entry.parent_info
    IN  IF parent.series_id = 0
        THEN [ret |-> 0, ser |-> ser, cache |-> cache, stub |-> FALSE]
        ELSE IF parent.series_id \in DOMAIN cache
        THEN [ret |-> cache[parent.series_id], ser |-> ser, cache |-> cache, stub |-> FALSE]
        ELSE IF SelectByIsfdb(ser, parent.series_id) # 0
        THEN [ret |-> ser[SelectByIsfdb(ser, parent.series_id)].id, ser |-> ser,
              cache |-> CachePut(cache, parent.series_id,
                                 ser[SelectByIsfdb(ser, parent.series_id)].id),
              stub |-> FALSE]
        ELSE IF SelectByName(ser, normalize(parent.series_title)) # 0
        THEN ParentByName(ser, cache, parent, dry, t)
        ELSE ParentStub(ser, cache, parent, primary_author, dry, t)

(***************************************************************************)
(* parse_mysql_value(val_str): the Python value of one field.  A value is  *)
(* a record: None is "null", a str is "text", an int is "int" with its     *)
(* value in num, a float is "float" with the value num / 10^scale.         *)
(***************************************************************************)
NoValue == [type |-> "none", text |-> <<>>, num |-> 0, scale |-> 0]
PyNone == [type |-> "null", text |-> <<>>, num |-> 0, scale |-> 0]
PyStr(s) == [type |-> "text", text |-> s, num |-> 0, scale |-> 0]
PyInt(n) == [type |-> "int", text |-> <<>>, num |-> n, scale |-> 0]

\* two floats are equal when their values are: 2.50 is 2.5
RECURSIVE PyFloat(_, _)
PyFloat(n, sc) ==
    IF sc > 0 /\ n % 10 = 0
    THEN PyFloat(n \div 10, sc - 1)
    ELSE [type |-> "float", text |-> <<>>, num |-> n, scale |-> sc]

\* str.replace(old, new) for a two-character old and a one-character new:
\* the occurrences are taken left to right, without overlap.
RECURSIVE Replace(_, _, _, _)
Replace(s, a, b, c) ==
    IF Len(s) < 2 THEN s
    ELSE IF s[1] = a /\ s[2] = b
         THEN <<c>> \o Replace(SubSeq(s, 3, Len(s)), a, b, c)
         ELSE <<s[1]>> \o Replace(Tail(s), a, b, c)

\* The five replace calls, each on the whole result of the one before it
\* (r1 is the text after the first call, r2 after the second, ...).
Unescape(inner) ==
    CHOOSE r5 \in
        { Replace(r4, "\\", "t", "\t") : r4 \in
        { Replace(r3, "\\", "r", "\r") : r3 \in
        { Replace(r2, "\\", "n", "\n") : r2 \in
        { Replace(r1, "\\", "\\", "\\") : r1 \in
        { Replace(inner, "\\", "'", "'") } } } } } : TRUE

DigitVal(c) == (CHOOSE k \in 1..Len(Digits) : Digits[k] = c) - 1

RECURSIVE DigitsVal(_)
DigitsVal(s) ==
    IF s = <<>> THEN 0
    ELSE 10 * DigitsVal(SubSeq(s, 1, Len(s) - 1)) + DigitVal(s[Len(s)])

AllDigits(s) == \A k \in 1..Len(s) : IsDigit(s[k])
HasSign(s) == s # <<>> /\ s[1] \in {"+", "-"}
Unsigned(s) == IF HasSign(s) THEN Tail(s) ELSE s
Signed(s, n) == IF HasSign(s) /\ s[1] = "-" THEN 0 - n ELSE n

\* int(s) does not raise ValueError: an optional sign and decimal digits
IntValid(s) == Unsigned(s) # <<>> /\ AllDigits(Unsigned(s))

\* float(s) does not raise ValueError, for s with a '.': an optional sign,
\* digits around one decimal point, at least one digit
DotAt(s) == Min({k \in 1..Len(s) : s[k] = "."})
FloatValid(s) ==
    LET u == Unsigned(s)
        d == DotAt(u)
        ip == SubSeq(u, 1, d - 1)
        fp == SubSeq(u, d + 1, Len(u))
    IN  /\ \E k \in 1..Len(u) : u[k] = "."
        /\ AllDigits(ip) /\ AllDigits(fp)
        /\ Len(ip) + Len(fp) > 0

FloatOf(s) ==
    LET u == Unsigned(s)
        d == DotAt(u)
        ip == SubSeq(u, 1, d - 1)
        fp == SubSeq(u, d + 1, Len(u))
    IN  PyFloat(Signed(s, DigitsVal(ip \o fp)), Len(fp))

parse_mysql_value(v) ==
    LET s == Strip(v)
    IN  IF s = <<"N", "U", "L", "L">> THEN PyNone
        ELSE IF s # <<>> /\ s[1] = "'" /\ s[Len(s)] = "'"
        THEN PyStr(Unescape(SubSeq(s, 2, Len(s) - 1)))
        ELSE IF \E k \in 1..Len(s) : s[k] = "."
        THEN IF FloatValid(s) THEN FloatOf(s) ELSE PyStr(s)
        ELSE IF IntValid(s) THEN PyInt(Signed(s, DigitsVal(Unsigned(s)))) ELSE PyStr(s)

(***************************************************************************)
(* The states a run starts from.                                           *)
(***************************************************************************)
ZeroCounts ==
    [series_inserted |-> 0, series_updated |-> 0, books_inserted |-> 0,
     source_inserted |-> 0, updated_isfdb_id |-> 0, updated_parent |-> 0,
     already_up_to_date |-> 0, parent_stubs_created |-> 0]

\* A series row some earlier tool wrote: it has a name, and may have an
\* external identifier and a parent link to another row.
StoredRow(id, name, isfdb, parent) ==
    [id |-> id, name |-> name, name_normalized |-> normalize(name),
     author |-> "", total_books |-> 0, year_start |-> 0, year_end |-> 0,
     confidence |-> 80, verified |-> 0, isfdb_id |-> isfdb,
     created_at |-> 0, updated_at |-> 0, parent_series_id |-> parent]

StoredNames == {<<"a">>, <<"b">>}
\* the catalog identifiers a stored row may hold
StoredIsfdbIds == {1, 2, 3}

InitStores ==
    UNION { { [k \in 1..n |-> StoredRow(k, nm[k], fd[k], pr[k])] :
                nm \in [1..n -> StoredNames],
                fd \in [1..n -> {0} \cup StoredIsfdbIds],
                pr \in {f \in [1..n -> 0..n] : \A k \in 1..n : f[k] # k} }
            : n \in 0..MaxInitRows }

IdleParse ==
    /\ line = <<>> /\ data = <<>> /\ i = 0 /\ tuples = <<>> /\ values = <<>>
    /\ current = <<>> /\ in_string = FALSE /\ escape_next = FALSE /\ ppc = "off"
IdleValue == val_str = <<>> /\ val_out = NoValue
IdleBackend ==
    /\ titles_table = <<>> /\ q_series_ids = {}
    /\ res_sqlite = [done |-> FALSE, titles |-> <<>>, title_ids |-> {}]
    /\ res_dump = [done |-> FALSE, titles |-> <<>>, title_ids |-> {}]
NoPubInfo == [done |-> FALSE, info |-> <<>>]
IdlePubs ==
    /\ pubs_table = <<>> /\ pub_content = {} /\ q_title_ids = {}
    /\ pub_info_sqlite = NoPubInfo /\ pub_info_dump = NoPubInfo
IdleResolve ==
    /\ catalog_titles = <<>> /\ store_exists = FALSE /\ rpc = "off"
    /\ target_names = {} /\ merge_children = FALSE /\ from_db = FALSE
    /\ found_series = <<>> /\ series_data = <<>> /\ trace = <<>>
NoNorm == [done |-> FALSE, x |-> <<>>, y |-> <<>>, again |-> <<>>]
IdleNorm == norm_x = <<>> /\ norm_y = <<>> /\ norm_out = NoNorm
NoTitleOut == [done |-> FALSE, excluded |-> FALSE]
IdleTitle == title_in = <<>> /\ title_out = NoTitleOut
NoQueryResult == [done |-> FALSE, error |-> FALSE, ids |-> {}]
IdleBatch ==
    /\ q_name = "" /\ q_ids = <<>> /\ table_ids = {} /\ statements = <<>>
    /\ q_result = NoQueryResult
NoFound == [done |-> FALSE, found |-> <<>>]
IdleFind ==
    /\ find_names = <<>> /\ series_table = <<>>
    /\ found_sqlite = NoFound /\ found_dump = NoFound
IdleLater ==
    IdlePubs /\ IdleResolve /\ IdleNorm /\ IdleTitle /\ IdleBatch /\ IdleFind
IdleStore ==
    /\ series = <<>> /\ series_book = <<>> /\ source_data = <<>>
    /\ durable = [series |-> <<>>, series_book |-> <<>>, source_data |-> <<>>]
IdleRun ==
    /\ pc = "off" /\ dry_run = FALSE /\ idx = 0 /\ parent_stub_ids = <<>>
    /\ counts = ZeroCounts /\ now = 0 /\ log = <<>> /\ entries = <<>>
    /\ plan = "scan"

Init ==
    /\ series \in InitStores
    /\ series_book = <<>>
    /\ source_data = <<>>
    /\ durable = [series |-> series, series_book |-> <<>>, source_data |-> <<>>]
    /\ pc = "idle" /\ dry_run = FALSE /\ idx = 0 /\ parent_stub_ids = <<>>
    /\ counts = ZeroCounts /\ now = 0 /\ log = <<>>
    /\ entries \in {[k \in 1..Len(l) |-> EntryOf(l[k])] : l \in EntryLists}
    /\ plan \in Plans
    /\ IdleParse /\ IdleValue /\ IdleBackend /\ IdleLater

(***************************************************************************)
(* import_to_nachoseries(series_data, dry_run)                             *)
(***************************************************************************)
\* db = sqlite3.connect(...); cursor = db.cursor(); the counters; the cache
StartImport(dry) ==
    /\ pc = "idle"
    /\ Len(log) < MaxRuns
    /\ pc' = "import"
    /\ dry_run' = dry
    /\ idx' = 1
    /\ parent_stub_ids' = <<>>
    /\ counts' = ZeroCounts
    /\ now' = now + 1
    /\ UNCHANGED <<notRun, storeVars, log, entries, plan>>

Existing(entry) ==
    SelectByIsfdbOrName(series, entry.series_id, normalize(entry.series_title), plan)

\* A faulty variant of ExistingSeries: the entry's identifier is written whether or
\* not the record holds one.
ExistingSeriesOverwrite(ser, cache, entry, e, dry, t) ==
    LET existing_id == ser[e].id
        ser1 == IF ~dry THEN UpdateIsfdb(ser, existing_id, entry.series_id, t) ELSE ser
        rp == resolve_parent(ser1, cache, entry, PrimaryAuthor(entry.books), dry, t)
    IN  [ser |-> rp.ser, cache |-> rp.cache, updated |-> TRUE]

\* "if existing:" ... "continue"
ExistingSeries(ser, cache, entry, e, dry, t) ==
    LET existing_id == ser[e].id
        existing_isfdb == ser[e].isfdb_id
        existing_parent == ser[e].parent_series_id
        ser1 == IF existing_isfdb = 0 /\ ~dry
                THEN UpdateIsfdb(ser, existing_id, entry.series_id, t)
                ELSE ser
        rp == resolve_parent(ser1, cache, entry, PrimaryAuthor(entry.books), dry, t)
        link == rp.ret # 0 /\ existing_parent = 0
    IN  [ser |-> IF link /\ ~dry
                 THEN UpdateParent(rp.ser, existing_id, rp.ret, t)
                 ELSE rp.ser,
         cache |-> rp.cache,
         updated |-> existing_isfdb = 0 \/ link]

ImportExisting ==
    /\ pc = "import"
    /\ idx <= Len(entries)
    /\ Existing(entries[idx]) # 0
    /\ LET r == ExistingSeries(series, parent_stub_ids, entries[idx],
                               Existing(entries[idx]), dry_run, now)
       IN  /\ series' = r.ser
           /\ parent_stub_ids' = r.cache
           /\ counts' = [counts EXCEPT !.series_updated =
                            IF r.updated THEN @ + 1 ELSE @]
    /\ idx' = idx + 1
    /\ UNCHANGED <<notRun, series_book, source_data, durable, pc, dry_run, now, log,
                   entries, plan>>

\* "# --- New series ---"
NewSeries(ser, cache, entry, dry, t) ==
    LET primary_author == PrimaryAuthor(entry.books)
        rp == resolve_parent(ser, cache, entry, primary_author, dry, t)
        series_id == uuid4(rp.ser, rp.cache)
    IN  [ser |-> IF ~dry
                 THEN Append(rp.ser, NewSeriesRow(series_id, entry, primary_author,
                                                  rp.ret, t))
                 ELSE rp.ser,
         cache |-> rp.cache,
         books |-> IF ~dry THEN BookRows(series_id, entry.books, t) ELSE <<>>,
         source |-> IF ~dry THEN <<SourceRow(series_id, entry, t)>> ELSE <<>>]

ImportNewEntry ==
    /\ pc = "import"
    /\ idx <= Len(entries)
    /\ Existing(entries[idx]) = 0
    /\ LET r == NewSeries(series, parent_stub_ids, entries[idx], dry_run, now)
       IN  /\ series' = r.ser
           /\ parent_stub_ids' = r.cache
           /\ series_book' = series_book \o r.books
           /\ source_data' = source_data \o r.source
    /\ counts' = [counts EXCEPT !.series_inserted = @ + 1,
                                !.books_inserted = @ + Len(entries[idx].books),
                                !.source_inserted = @ + 1]
    /\ idx' = idx + 1
    /\ UNCHANGED <<notRun, pc, dry_run, now, log, entries, plan>>

\* A faulty variant of ImportNew: every statement is committed as it is executed.
ImportNewAutocommit ==
    /\ ImportNewEntry
    /\ durable' = [series |-> series', series_book |-> series_book',
                   source_data |-> source_data']

\* The inserts stay in the open transaction.
ImportNew ==
    /\ ImportNewEntry
    /\ UNCHANGED durable

\* The function returns or the process ends: its locals are gone.
RunEnds ==
    /\ pc' = "idle"
    /\ dry_run' = FALSE
    /\ idx' = 0
    /\ parent_stub_ids' = <<>>
    /\ counts' = ZeroCounts

\* "if not dry_run: db.commit()"
Commit(dry) ==
    IF dry THEN durable
    ELSE [series |-> series, series_book |-> series_book, source_data |-> source_data]

\* db.commit(); db.close(); the summary is printed
FinishImport ==
    /\ pc = "import"
    /\ idx > Len(entries)
    /\ durable' = Commit(dry_run)
    /\ series' = durable'.series
    /\ series_book' = durable'.series_book
    /\ source_data' = durable'.source_data
    /\ log' = Append(log, [mode |-> "full", dry |-> dry_run, done |-> TRUE,
                           counts |-> counts])
    /\ RunEnds
    /\ UNCHANGED <<notRun, now, entries, plan>>

(***************************************************************************)
(* run_bulk_import(isfdb, target_names, dry_run): found_series is the      *)
(* run's entry list (name -> catalog row), parents the catalog rows of     *)
(* their parents.                                                          *)
(***************************************************************************)
\* "if not found_series: ... return", before the store is opened
BulkNoneFound ==
    /\ pc = "idle"
    /\ Len(log) < MaxRuns
    /\ entries = <<>>
    /\ log' = Append(log, [mode |-> "bulk", dry |-> FALSE, done |-> FALSE,
                           counts |-> ZeroCounts])
    /\ UNCHANGED <<notRun, storeVars, pc, dry_run, idx, parent_stub_ids, counts, now,
                   entries, plan>>

StartBulk(dry) ==
    /\ pc = "idle"
    /\ Len(log) < MaxRuns
    /\ entries # <<>>
    /\ pc' = "bulk"
    /\ dry_run' = dry
    /\ idx' = 1
    /\ parent_stub_ids' = <<>>
    /\ counts' = ZeroCounts
    /\ now' = now + 1
    /\ UNCHANGED <<notRun, storeVars, log, entries, plan>>

\* "# Resolve parent: find or create in NachoSeries"
BulkResolveParent(ser, cache, parent, dry, t) ==
    IF parent.series_id \in DOMAIN cache
    THEN [ret |-> cache[parent.series_id], ser |-> ser, cache |-> cache, stub |-> FALSE]
    ELSE LET byId == SelectByIsfdb(ser, parent.series_id)
             byName == SelectByName(ser, normalize(parent.series_title))
             fresh == uuid4(ser, cache)
         IN  IF byId # 0
             THEN [ret |-> ser[byId].id, ser |-> ser,
                   cache |-> CachePut(cache, parent.series_id, ser[byId].id),
                   stub |-> FALSE]
             ELSE IF byName # 0
             THEN [ret |-> ser[byName].id,
                   ser |-> IF ser[byName].isfdb_id = 0 /\ ~dry
                           THEN UpdateIsfdb(ser, ser[byName].id, parent.series_id, t)
                           ELSE ser,
                   cache |-> CachePut(cache, parent.series_id, ser[byName].id),
                   stub |-> FALSE]
             ELSE [ret |-> fresh,
                   ser |-> IF ~dry THEN Append(ser, BulkStubRow(fresh, parent, t))
                           ELSE ser,
                   cache |-> CachePut(cache, parent.series_id, fresh),
                   stub |-> TRUE]

\* One iteration of "for name, s in found_series.items()" on a series the
\* store holds.
BulkSeries(ser, cache, s, e, dry, t) ==
    LET ns_id == ser[e].id
        ns_isfdb == ser[e].isfdb_id
        ns_parent == ser[e].parent_series_id
        ser1 == IF ns_isfdb = 0 /\ ~dry
                THEN UpdateIsfdb(ser, ns_id, s.series_id, t)
                ELSE ser
        wantParent == s.series_parent # 0 /\ ns_parent = 0 /\ s.parent_info.series_id # 0
        rp == IF wantParent
              THEN BulkResolveParent(ser1, cache, s.parent_info, dry, t)
              ELSE [ret |-> 0, ser |-> ser1, cache |-> cache, stub |-> FALSE]
        link == wantParent /\ rp.ret # 0 /\ ns_parent = 0
    IN  [ser |-> IF link /\ ~dry THEN UpdateParent(rp.ser, ns_id, rp.ret, t) ELSE rp.ser,
         cache |-> rp.cache,
         set_isfdb |-> ns_isfdb = 0,
         set_parent |-> link,
         stub |-> rp.stub]

BulkEntry ==
    /\ pc = "bulk"
    /\ idx <= Len(entries)
    /\ SelectByName(series, normalize(entries[idx].series_title)) # 0
    /\ LET r == BulkSeries(series, parent_stub_ids, entries[idx],
                           SelectByName(series, normalize(entries[idx].series_title)),
                           dry_run, now)
       IN  /\ series' = r.ser
           /\ parent_stub_ids' = r.cache
           /\ counts' = [counts EXCEPT
                  !.updated_isfdb_id = IF r.set_isfdb THEN @ + 1 ELSE @,
                  !.updated_parent = IF r.set_parent THEN @ + 1 ELSE @,
                  !.parent_stubs_created = IF r.stub THEN @ + 1 ELSE @,
                  !.already_up_to_date =
                      IF ~r.set_isfdb /\ ~r.set_parent THEN @ + 1 ELSE @]
    /\ idx' = idx + 1
    /\ UNCHANGED <<notRun, series_book, source_data, durable, pc, dry_run, now, log,
                   entries, plan>>

\* A faulty variant of BulkSkip: a series the store does not hold is inserted.
BulkSkipCreates ==
    /\ pc = "bulk"
    /\ idx <= Len(entries)
    /\ SelectByName(series, normalize(entries[idx].series_title)) = 0
    /\ series' = IF dry_run THEN series
                 ELSE Append(series, NewSeriesRow(uuid4(series, parent_stub_ids),
                                                  entries[idx], "", 0, now))
    /\ idx' = idx + 1
    /\ UNCHANGED <<notRun, series_book, source_data, durable, pc, dry_run,
                   parent_stub_ids, counts, now, log, entries, plan>>

\* "if not existing: continue"
BulkSkip ==
    /\ pc = "bulk"
    /\ idx <= Len(entries)
    /\ SelectByName(series, normalize(entries[idx].series_title)) = 0
    /\ idx' = idx + 1
    /\ UNCHANGED <<notRun, storeVars, pc, dry_run, parent_stub_ids, counts, now, log,
                   entries, plan>>

FinishBulk ==
    /\ pc = "bulk"
    /\ idx > Len(entries)
    /\ durable' = Commit(dry_run)
    /\ series' = durable'.series
    /\ series_book' = durable'.series_book
    /\ source_data' = durable'.source_data
    /\ log' = Append(log, [mode |-> "bulk", dry |-> dry_run, done |-> TRUE,
                           counts |-> counts])
    /\ RunEnds
    /\ UNCHANGED <<notRun, now, entries, plan>>

(***************************************************************************)
(* The process is terminated during a run: the connection never commits,   *)
(* and the next connection sees what is durable.  No summary is printed;   *)
(* the log notes whether uncommitted writes were lost.                     *)
(***************************************************************************)
Terminate ==
    /\ pc \in {"import", "bulk"}
    /\ series' = durable.series
    /\ series_book' = durable.series_book
    /\ source_data' = durable.source_data
    /\ log' = Append(log, [mode |-> IF series = durable.series THEN "killed"
                                     ELSE "killed-dirty",
                           dry |-> FALSE, done |-> FALSE, counts |-> ZeroCounts])
    /\ RunEnds
    /\ UNCHANGED <<notRun, durable, now, entries, plan>>

Next ==
    \/ \E dry \in BOOLEAN : StartImport(dry)
    \/ ImportExisting
    \/ ImportNew
    \/ FinishImport
    \/ BulkNoneFound
    \/ \E dry \in BOOLEAN : StartBulk(dry)
    \/ BulkEntry
    \/ BulkSkip
    \/ FinishBulk
    \/ Terminate

Spec == Init /\ [][Next]_vars

(***************************************************************************)
(* parse_mysql_tuples(line), one action per branch of its two loops.       *)
(* Positions are 1-based: i here is the code's i + 1.                      *)
(***************************************************************************)
MaxLen == 5
MaxValLen == 5

\* re.search(r'VALUES\s+', line, re.IGNORECASE): the position after the
\* first match, 0 when there is none.
ValuesAt(l, k) ==
    /\ k + 6 <= Len(l)
    /\ Lower(SubSeq(l, k, k + 5)) = <<"v", "a", "l", "u", "e", "s">>
    /\ IsSpace(l[k + 6])

RECURSIVE SkipSpace(_, _)
SkipSpace(l, k) == IF k <= Len(l) /\ IsSpace(l[k]) THEN SkipSpace(l, k + 1) ELSE k

ValuesEnd(l) ==
    IF \E k \in 1..Len(l) : ValuesAt(l, k)
    THEN SkipSpace(l, Min({k \in 1..Len(l) : ValuesAt(l, k)}) + 6)
    ELSE 0

RECURSIVE RStripChar(_, _)
RStripChar(s, c) ==
    IF s # <<>> /\ s[Len(s)] = c THEN RStripChar(SubSeq(s, 1, Len(s) - 1), c) ELSE s

\* line[values_match.end():] and data.rstrip().rstrip(';').rstrip()
DataOf(l) == RStrip(RStripChar(RStrip(SubSeq(l, ValuesEnd(l), Len(l))), ";"))

\* The lines of the model: a statement that opens its first row, followed
\* by every text over ScanChars up to MaxLen, and some whole statements.
ScanChars == {"(", ")", ",", "'", "\\", "n"}
Statement == <<"V", "A", "L", "U", "E", "S", " ", "(">>
ExampleLines ==
    { <<"V", "A", "L", "U", "E", "S", " ", "(", "1", ",", "'", "O", "\\", "'",
        "B", "r", "i", "e", "n", "'", ",", "N", "U", "L", "L", ",", "2", ".", "5",
        ")", ";">>,
      <<"I", "N", "T", "O", " ", "t", " ", "v", "a", "l", "u", "e", "s", "\t", " ",
        "(", "-", "7", ",", " ", "x", " ", ")", ",", "(", "'", ";", "'", ")", ";",
        ";", " ">>,
      <<"V", "A", "L", "U", "E", "S", " ", "(", "'", "a", ",", "(", "b", ")", "'", ",",
        "'", "\\", "\\", "'", ",", "5", ")", ",", "(", "'", "x", "\\", "'", "y",
        "\\", "\\", "n", "'", ",", "'", "\\", "t", "\\", "r", "'", ")", ";">>,
      <<"V", "A", "L", "U", "E", "S", "(", "1", ")">>,
      <<"L", "O", "C", "K", " ", "T", "A", "B", "L", "E", "S", ";">> }
Lines == {Statement \o d : d \in SeqsUpTo(ScanChars, MaxLen)} \cup ExampleLines

\* Before the call: no line yet.
InitParse ==
    /\ line = <<>>
    /\ data = <<>> /\ i = 0 /\ tuples = <<>> /\ values = <<>> /\ current = <<>>
    /\ in_string = FALSE /\ escape_next = FALSE /\ ppc = "ready"
    /\ IdleStore /\ IdleRun /\ IdleValue /\ IdleBackend /\ IdleLater

notParse == <<storeVars, runVars, valueVars, backendVars, laterVars>>

\* The call with a line that has no VALUES: "if not values_match: return []"
NoValues ==
    /\ ppc = "ready"
    /\ \E l \in Lines : ValuesEnd(l) = 0 /\ line' = l
    /\ ppc' = "done"
    /\ UNCHANGED <<notParse, data, i, tuples, values, current, in_string,
                   escape_next>>

\* The call with a line that has one: data = ...; tuples = []; i = 0
StartScan ==
    /\ ppc = "ready"
    /\ \E l \in Lines : ValuesEnd(l) # 0 /\ line' = l /\ data' = DataOf(l)
    /\ i' = 1
    /\ ppc' = "outer"
    /\ UNCHANGED <<notParse, tuples, values, current, in_string, escape_next>>

\* "if data[i] == '(':" and the four assignments under it
OpenTuple ==
    /\ ppc = "outer" /\ i <= Len(data) /\ data[i] = "("
    /\ i' = i + 1
    /\ values' = <<>> /\ current' = <<>>
    /\ in_string' = FALSE /\ escape_next' = FALSE
    /\ ppc' = "inner"
    /\ UNCHANGED <<notParse, line, data, tuples>>

\* A faulty variant of SkipOutside: the position is not advanced.
SkipOutsideForever ==
    /\ ppc = "outer" /\ i <= Len(data) /\ data[i] # "("
    /\ UNCHANGED vars

\* the outer "else: i += 1"
SkipOutside ==
    /\ ppc = "outer" /\ i <= Len(data) /\ data[i] # "("
    /\ i' = i + 1
    /\ UNCHANGED <<notParse, line, data, tuples, values, current, in_string,
                   escape_next, ppc>>

Inner == ppc = "inner" /\ i <= Len(data)

\* "if escape_next:"
Escaped ==
    /\ Inner /\ escape_next
    /\ current' = Append(current, data[i])
    /\ escape_next' = FALSE
    /\ i' = i + 1
    /\ UNCHANGED <<notParse, line, data, tuples, values, in_string, ppc>>

\* "if ch == '\\' and in_string:"
Backslash ==
    /\ Inner /\ ~escape_next
    /\ data[i] = "\\" /\ in_string
    /\ current' = Append(current, data[i])
    /\ escape_next' = TRUE
    /\ i' = i + 1
    /\ UNCHANGED <<notParse, line, data, tuples, values, in_string, ppc>>

\* "if ch == "'" and not escape_next:"
Quote ==
    /\ Inner /\ ~escape_next
    /\ data[i] = "'"
    /\ in_string' = ~in_string
    /\ current' = Append(current, data[i])
    /\ i' = i + 1
    /\ UNCHANGED <<notParse, line, data, tuples, values, escape_next, ppc>>

\* "if in_string:"
InString ==
    /\ Inner /\ ~escape_next
    /\ data[i] \notin {"\\", "'"}
    /\ in_string
    /\ current' = Append(current, data[i])
    /\ i' = i + 1
    /\ UNCHANGED <<notParse, line, data, tuples, values, in_string, escape_next, ppc>>

\* A faulty variant of Comma: a comma ends the field in string mode too.
CommaInString ==
    /\ Inner /\ ~escape_next
    /\ data[i] = ","
    /\ values' = Append(values, parse_mysql_value(current))
    /\ current' = <<>>
    /\ i' = i + 1
    /\ UNCHANGED <<notParse, line, data, tuples, in_string, escape_next, ppc>>

\* "if ch == ',':"
Comma ==
    /\ Inner /\ ~escape_next /\ ~in_string
    /\ data[i] = ","
    /\ values' = Append(values, parse_mysql_value(current))
    /\ current' = <<>>
    /\ i' = i + 1
    /\ UNCHANGED <<notParse, line, data, tuples, in_string, escape_next, ppc>>

\* "elif ch == ')':" ... "break"
CloseTuple ==
    /\ Inner /\ ~escape_next /\ ~in_string
    /\ data[i] = ")"
    /\ values' = Append(values, parse_mysql_value(current))
    /\ tuples' = Append(tuples, values')
    /\ i' = i + 1
    /\ ppc' = "outer"
    /\ UNCHANGED <<notParse, line, data, current, in_string, escape_next>>

\* the inner "else: current += ch"
Bare ==
    /\ Inner /\ ~escape_next /\ ~in_string
    /\ data[i] \notin {"'", ",", ")"}
    /\ current' = Append(current, data[i])
    /\ i' = i + 1
    /\ UNCHANGED <<notParse, line, data, tuples, values, in_string, escape_next, ppc>>

\* "while i < len(data)" is false in the inner or the outer loop: return tuples
Return ==
    /\ ppc \in {"outer", "inner"} /\ i > Len(data)
    /\ ppc' = "done"
    /\ UNCHANGED <<notParse, line, data, i, tuples, values, current, in_string,
                   escape_next>>

\* One iteration of a loop, or the return that ends them.
ScanStep ==
    \/ OpenTuple
    \/ SkipOutside
    \/ Escaped
    \/ Backslash
    \/ Quote
    \/ InString
    \/ Comma
    \/ CloseTuple
    \/ Bare
    \/ Return

NextParse ==
    \/ NoValues
    \/ StartScan
    \/ ScanStep

SpecParse == InitParse /\ [][NextParse]_vars

\* Once called, the function is run on: no step of it waits for anything.
SpecParseFair == SpecParse /\ WF_vars(ScanStep)

(***************************************************************************)
(* parse_mysql_value called on one field text.                             *)
(***************************************************************************)
ValueChars == {"N", "U", "L", "1", ".", "'", " "}
ExampleValues ==
    { <<"-", "1">>, <<"-", "1", ".", "5">>, <<"1", "x">>, <<"2", ".", "5", "0">>,
      <<" ", "1", ".", "2", ".", "3", " ">>, <<"'", "O", "\\", "'", "B", "'">>,
      <<"+", ".", "5">>, <<"-">>, <<"n", "u", "l", "l">>,
      <<"'", "N", "U", "L", "L", "'">>, <<" ", "'", "1", "1", "'", " ">> }

InitValue ==
    /\ val_str \in SeqsUpTo(ValueChars, MaxValLen) \cup ExampleValues
    /\ val_out = NoValue
    /\ IdleStore /\ IdleRun /\ IdleParse /\ IdleBackend /\ IdleLater

ParseValue ==
    /\ val_out = NoValue
    /\ val_out' = parse_mysql_value(val_str)
    /\ UNCHANGED <<storeVars, runVars, parseVars, backendVars, laterVars, val_str>>

NextValue == ParseValue

SpecValue == InitValue /\ [][NextValue]_vars

(***************************************************************************)
(* The two catalog backends on the same rows of the titles table.  A       *)
(* nullable column is <<>> for NULL and <<v>> for the value v.  The rows   *)
(* are in title_id order, which is the order of the dump's tuples and of   *)
(* the indexed store's scan.                                               *)
(***************************************************************************)
MaxTitles == 2
ENGLISH_LANG_ID == 17
INCLUDED_TITLE_TYPES == {"NOVEL", "NOVELLA", "SHORTFICTION"}

\* The regular expressions of EXCLUDED_TITLE_PATTERNS are matched on sets of
\* positions: each step maps the positions a match can have reached to the
\* positions it can reach next, so a pattern matches when the last set is
\* not empty.  Position p stands before the character t[p].

\* a literal, under re.IGNORECASE (w is given in lower case)
Lit(t, S, w) ==
    {p + Len(w) : p \in {q \in S : /\ q + Len(w) - 1 <= Len(t)
                                   /\ \A k \in 1..Len(w) : LowerChar(t[q + k - 1]) = w[k]}}
\* \s+ (min = 1) and \s* (min = 0)
Spaces(t, S, min) ==
    {q \in 1..(Len(t) + 1) : \E p \in S : /\ q >= p + min
                                         /\ \A k \in p..(q - 1) : IsSpace(t[k])}
\* \w+
Words(t, S) ==
    {q \in 1..(Len(t) + 1) : \E p \in S : /\ q > p
                                         /\ \A k \in p..(q - 1) : IsWord(t[k])}
\* \b
WordAt(t, k) == k \in 1..Len(t) /\ IsWord(t[k])
Boundary(t, S) == {p \in S : WordAt(t, p - 1) # WordAt(t, p)}
\* $
AtEnd(t, S) == {p \in S : p = Len(t) + 1 \/ (p = Len(t) /\ t[p] = "\n")}
\* ^ and the start of a search
AtStart == {1}
Anywhere(t) == 1..(Len(t) + 1)

\* For each pattern, in the order of the list, the positions where a match
\* of it can end.
EXCLUDED_TITLE_PATTERNS(t) ==
    << Lit(t, Anywhere(t), <<"(", "e", "x", "c", "e", "r", "p", "t", ")">>),
       Boundary(t, Lit(t, Spaces(t, Lit(t, AtStart, <<"e", "x", "c", "e", "r", "p", "t">>), 1), <<"f", "r", "o", "m">>)),
       Lit(t, AtStart, <<"a", "p", "p", "e", "n", "d", "i", "x", ":">>),
       Boundary(t, Lit(t, Spaces(t, Lit(t, AtStart, <<"d", "e", "l", "e", "t", "e", "d">>), 1), <<"s", "c", "e", "n", "e">>)
                   \cup Lit(t, Lit(t, Spaces(t, Lit(t, AtStart, <<"d", "e", "l", "e", "t", "e", "d">>), 1), <<"s", "c", "e", "n", "e">>), <<"s">>)),
       Boundary(t, Lit(t, AtStart, <<"e", "n", "d", "n", "o", "t", "e">>)),
       Boundary(t, Lit(t, Spaces(t, Lit(t, AtStart, <<"p", "r", "e", "l", "u", "d", "e">>), 1), <<"t", "o">>)),
       Lit(t, Spaces(t, Lit(t, AtStart, <<"p", "r", "o", "l", "o", "g", "u", "e">>), 0), <<"(">>),
       Boundary(t, Lit(t, Spaces(t, Lit(t, AtStart, <<"d", "r", "a", "m", "a", "t", "i", "s">>), 1), <<"p", "e", "r", "s", "o", "n", "a", "e">>)),
       Lit(t, Spaces(t, Lit(t, AtStart, <<"u", "n", "t", "i", "t", "l", "e", "d">>), 0), <<"(">>),
       Lit(t, Spaces(t, Lit(t, Spaces(t, Lit(t, Spaces(t, Lit(t, AtStart, <<"t", "h", "e">>), 1),
                                            <<"s", "t", "o", "r", "y">>), 1), <<"s", "o">>), 1), <<"f", "a", "r">>),
       Spaces(t, Lit(t, Spaces(t, Lit(t, Anywhere(t), <<":">>), 0), <<"p", "r", "o", "l", "o", "g", "u", "e">>)
                 \cup Lit(t, Spaces(t, Lit(t, Anywhere(t), <<":">>), 0), <<"c", "h", "a", "p", "t", "e", "r">>), 1),
       AtEnd(t, Lit(t, Spaces(t, Words(t, AtStart \cup Spaces(t, Lit(t, AtStart, <<"t", "h", "e">>), 1)), 1),
                       <<"s", "y", "s", "t", "e", "m">>)),
       Lit(t, Spaces(t, Lit(t, Anywhere(t), <<"e", "x", "t", "e", "n", "d", "e", "d">>), 1), <<"e", "x", "c", "e", "r", "p", "t">>),
       Lit(t, Spaces(t, Lit(t, AtStart, <<"f", "i", "r", "s", "t">>), 1), <<"d", "r", "a", "f", "t", ":">>),
       Lit(t, AtStart, <<"e", "d", "i", "t", "s", ":">>) >>

\* A faulty variant of is_excluded_title: nothing but an empty title is
\* excluded.
is_excluded_title_empty_only(title) == title = <<>>

is_excluded_title(title) ==
    \/ title = <<>>
    \/ \E k \in 1..Len(EXCLUDED_TITLE_PATTERNS(title)) : EXCLUDED_TITLE_PATTERNS(title)[k] # {}

TitleTexts ==
    { <<"D", "u", "n", "e">>,
      <<"D", "u", "n", "e", " ", "(", "E", "x", "c", "e", "r", "p", "t", ")">>,
      <<>> }
TitleSeries == {1, 2}
TitleTypes == {"NOVEL", "ESSAY"}
TitleParents == {<<>>, <<0>>, <<5>>}
TitleLanguages == {<<>>, <<ENGLISH_LANG_ID>>, <<22>>}

TitleTables ==
    UNION { { [k \in 1..n |->
                 [title_id |-> k, title_title |-> tt[k], series_id |-> sr[k],
                  title_ttype |-> ty[k], title_parent |-> pa[k],
                  title_language |-> la[k]]] :
                tt \in [1..n -> TitleTexts], sr \in [1..n -> TitleSeries],
                ty \in [1..n -> TitleTypes], pa \in [1..n -> TitleParents],
                la \in [1..n -> TitleLanguages] }
            : n \in 0..MaxTitles }

NoResult == [done |-> FALSE, titles |-> <<>>, title_ids |-> {}]

\* "titles[sid].append({...}); title_ids.add(...)" over the kept rows
TitlesResult(kept) ==
    [done |-> TRUE,
     titles |-> [sid \in {kept[k].series_id : k \in 1..Len(kept)} |->
                    SelectSeq(kept, LAMBDA r : r.series_id = sid)],
     title_ids |-> {kept[k].title_id : k \in 1..Len(kept)}]

\* The WHERE clause of ISFDBSqlite.find_titles_for_series: a comparison with
\* NULL is not true.
SqliteWhere(r, ids) ==
    /\ r.series_id \in ids
    /\ r.title_ttype \in INCLUDED_TITLE_TYPES
    /\ (r.title_parent = <<0>> \/ r.title_parent = <<>>)
    /\ r.title_language = <<ENGLISH_LANG_ID>>

SqliteFindTitles(rows, ids) ==
    TitlesResult(SelectSeq(rows, LAMBDA r :
        SqliteWhere(r, ids) /\ ~is_excluded_title(r.title_title)))

\* The conditions of ISFDBDump.find_titles_for_series on a parsed tuple t.
DumpKeeps(r, ids) ==
    /\ r.series_id \in ids
    /\ r.title_ttype \in INCLUDED_TITLE_TYPES
    /\ (r.title_parent = <<0>> \/ r.title_parent = <<>>)
    /\ ~(r.title_language # <<>> /\ r.title_language # <<ENGLISH_LANG_ID>>)
    /\ ~is_excluded_title(r.title_title)

DumpFindTitles(rows, ids) ==
    TitlesResult(SelectSeq(rows, LAMBDA r : DumpKeeps(r, ids)))

InitBackend ==
    /\ titles_table \in TitleTables
    /\ q_series_ids \in SUBSET TitleSeries
    /\ res_sqlite = NoResult /\ res_dump = NoResult
    /\ IdleStore /\ IdleRun /\ IdleParse /\ IdleValue /\ IdleLater

\* ISFDBSqlite(...).find_titles_for_series(series_ids)
QuerySqlite ==
    /\ ~res_sqlite.done
    /\ res_sqlite' = SqliteFindTitles(titles_table, q_series_ids)
    /\ UNCHANGED <<storeVars, runVars, parseVars, valueVars, laterVars,
                   titles_table, q_series_ids, res_dump>>

\* ISFDBDump(...).find_titles_for_series(series_ids)
QueryDump ==
    /\ ~res_dump.done
    /\ res_dump' = DumpFindTitles(titles_table, q_series_ids)
    /\ UNCHANGED <<storeVars, runVars, parseVars, valueVars, laterVars,
                   titles_table, q_series_ids, res_sqlite>>

NextBackend ==
    \/ QuerySqlite
    \/ QueryDump

SpecBackend == InitBackend /\ [][NextBackend]_vars

(***************************************************************************)
(* find_pubs_for_titles of both backends on the same pub_content and pubs  *)
(* rows.  A nullable column is <<>> for NULL and <<v>> for the value v.    *)
(* pub_content is the set of its (title_id, pub_id) pairs; pubs has one    *)
(* row per pub_id, and a pair may name a pub_id that has no row.           *)
(***************************************************************************)
MaxPubs == 2
PubTitles == {1, 2}
PubIsbns == {<<>>, <<"">>, <<"978">>}
PubPtypes == {<<>>, <<"hc">>, <<"tp">>, <<"ebook">>, <<"pb">>}

PubsTables ==
    UNION { { [k \in 1..n |-> [pub_id |-> k, pub_isbn |-> isbn[k], pub_ptype |-> pt[k]]] :
                isbn \in [1..n -> PubIsbns], pt \in [1..n -> PubPtypes] }
            : n \in 0..MaxPubs }

\* title_to_pubs: "title_to_pubs[tid].add(pid)" over the rows whose title_id
\* is asked for (WHERE title_id IN (...), in batches; "t[1] in title_ids").
TitleToPubs(content, ids) ==
    [tid \in {c[1] : c \in {d \in content : d[1] \in ids}} |->
        {c[2] : c \in {d \in content : d[1] = tid}}]

\* pubs: pub_id -> row, for the pub_ids collected above
PubsById(rows, pub_ids) ==
    [pid \in {rows[k].pub_id : k \in 1..Len(rows)} \cap pub_ids |->
        rows[CHOOSE k \in 1..Len(rows) : rows[k].pub_id = pid]]

pub_sort_key(p) ==
    LET has_isbn == IF p.pub_isbn \in {<<>>, <<"">>} THEN 0 ELSE 1
        ptype == IF p.pub_ptype = <<>> THEN "" ELSE p.pub_ptype[1]
        type_rank == IF ptype \in {"tp", "hc"} THEN 2
                     ELSE IF ptype = "ebook" THEN 1
                     ELSE 0
    IN  <<has_isbn, type_rank>>

\* tuple comparison a < b
KeyLess(a, b) == a[1] < b[1] \/ (a[1] = b[1] /\ a[2] < b[2])

\* candidates.sort(key=pub_sort_key, reverse=True): descending, and equal
\* keys keep the order they had.
\* A faulty variant of SortPubs: the sort without reverse=True.
RECURSIVE SortPubsAscending(_)
SortPubsAscending(cands) ==
    IF cands = <<>> THEN <<>>
    ELSE LET rest == SortPubsAscending(SubSeq(cands, 1, Len(cands) - 1))
             p == cands[Len(cands)]
             n == Cardinality({k \in 1..Len(rest) :
                                  ~KeyLess(pub_sort_key(p), pub_sort_key(rest[k]))})
         IN  SubSeq(rest, 1, n) \o <<p>> \o SubSeq(rest, n + 1, Len(rest))

RECURSIVE SortPubs(_)
SortPubs(cands) ==
    IF cands = <<>> THEN <<>>
    ELSE LET rest == SortPubs(SubSeq(cands, 1, Len(cands) - 1))
             p == cands[Len(cands)]
             \* p goes behind every element whose key is not smaller
             n == Cardinality({k \in 1..Len(rest) :
                                  ~KeyLess(pub_sort_key(rest[k]), pub_sort_key(p))})
         IN  SubSeq(rest, 1, n) \o <<p>> \o SubSeq(rest, n + 1, Len(rest))

\* The orders in which a set can be iterated.
SetOrders(S) ==
    {f \in [1..Cardinality(S) -> S] : \A a, b \in 1..Cardinality(S) : f[a] = f[b] => a = b}

\* "[pubs[pid] for pid in pub_id_set if pid in pubs]" with the set iterated
\* in the order ord
Candidates(ord, pubs) ==
    LET kept == SelectSeq(ord, LAMBDA pid : pid \in DOMAIN pubs)
    IN  [k \in 1..Len(kept) |-> pubs[kept[k]]]

\* title_pub_info, given for each title the iteration order of its set
TitlePubInfo(title_to_pubs, pubs, ords) ==
    [tid \in {t \in DOMAIN title_to_pubs : Candidates(ords[t], pubs) # <<>>} |->
        SortPubs(Candidates(ords[tid], pubs))[1]]

\* One iteration order for every title's set
PubOrders(title_to_pubs) ==
    {f \in [DOMAIN title_to_pubs -> UNION {SetOrders(title_to_pubs[t]) : t \in DOMAIN title_to_pubs}] :
        \A t \in DOMAIN title_to_pubs : f[t] \in SetOrders(title_to_pubs[t])}

find_pubs_for_titles(content, rows, ids, ords) ==
    LET title_to_pubs == TitleToPubs(content, ids)
        pub_ids == UNION {title_to_pubs[t] : t \in DOMAIN title_to_pubs}
    IN  TitlePubInfo(title_to_pubs, PubsById(rows, pub_ids), ords)

InitPubs ==
    /\ pubs_table \in PubsTables
    /\ pub_content \in SUBSET (PubTitles \X (1..(MaxPubs + 1)))
    /\ q_title_ids \in {{1}, {1, 2}}
    /\ pub_info_sqlite = NoPubInfo /\ pub_info_dump = NoPubInfo
    /\ IdleStore /\ IdleRun /\ IdleParse /\ IdleValue /\ IdleBackend /\ IdleResolve
    /\ IdleNorm /\ IdleTitle /\ IdleBatch /\ IdleFind

notPubs == <<storeVars, runVars, parseVars, valueVars, backendVars, resolveVars, normVars,
             titleVars, batchVars, findVars>>

\* ISFDBSqlite(...).find_pubs_for_titles(title_ids)
QueryPubsSqlite ==
    /\ ~pub_info_sqlite.done
    /\ \E ords \in PubOrders(TitleToPubs(pub_content, q_title_ids)) :
          pub_info_sqlite' =
              [done |-> TRUE,
               info |-> find_pubs_for_titles(pub_content, pubs_table, q_title_ids, ords)]
    /\ UNCHANGED <<notPubs, pubs_table, pub_content, q_title_ids, pub_info_dump>>

\* ISFDBDump(...).find_pubs_for_titles(title_ids)
QueryPubsDump ==
    /\ ~pub_info_dump.done
    /\ \E ords \in PubOrders(TitleToPubs(pub_content, q_title_ids)) :
          pub_info_dump' =
              [done |-> TRUE,
               info |-> find_pubs_for_titles(pub_content, pubs_table, q_title_ids, ords)]
    /\ UNCHANGED <<notPubs, pubs_table, pub_content, q_title_ids, pub_info_sqlite>>

NextPubs ==
    \/ QueryPubsSqlite
    \/ QueryPubsDump

SpecPubs == InitPubs /\ [][NextPubs]_vars

(***************************************************************************)
(* main and run_import: the resolver that turns target names into the      *)
(* entries handed to import_to_nachoseries.  The catalog's series table is *)
(* fixed: M and S are children of C, W is a child of M.  catalog_titles    *)
(* holds the rows find_titles_for_series returns, in row order.  A book's  *)
(* position is a Python value (None, str, or float after an offset); a     *)
(* year of 0 is None.                                                      *)
(***************************************************************************)
MaxBooks == 2

ResolverSeries ==
    << [series_id |-> 1, series_title |-> <<"M">>, series_parent |-> 4],
       [series_id |-> 2, series_title |-> <<"W">>, series_parent |-> 1],
       [series_id |-> 3, series_title |-> <<"S">>, series_parent |-> 4],
       [series_id |-> 4, series_title |-> <<"C">>, series_parent |-> 0] >>

\* the names a command line can carry: "w" matches W by case, "z" nothing
TargetNames == {<<"M">>, <<"w">>, <<"S">>, <<"z">>}

Pow10(n) == IF n = 0 THEN 1 ELSE IF n = 1 THEN 10 ELSE IF n = 2 THEN 100 ELSE 1000

\* float(x) raises ValueError or TypeError
FloatRaises(x) ==
    \/ x.type = "null"
    \/ x.type = "text" /\ ~IntValid(Strip(x.text)) /\ ~FloatValid(Strip(x.text))

\* float(x), for x on which it does not raise
FloatValue(x) ==
    IF x.type = "text"
    THEN IF FloatValid(Strip(x.text)) THEN FloatOf(Strip(x.text))
         ELSE PyFloat(Signed(Strip(x.text), DigitsVal(Unsigned(Strip(x.text)))), 0)
    ELSE PyFloat(x.num, x.scale)

FloatLess(a, b) == a.num * Pow10(b.scale) < b.num * Pow10(a.scale)
FloatAdd(a, b) ==
    LET sc == IF a.scale > b.scale THEN a.scale ELSE b.scale
    IN  PyFloat(a.num * Pow10(sc - a.scale) + b.num * Pow10(sc - b.scale), sc)

\* sort_key(b) / sort_key_sub(b): (pos, yr)
sort_key(b) ==
    [pos |-> IF b.position.type = "null" THEN PyFloat(999, 0)
             ELSE IF FloatRaises(b.position) THEN PyFloat(999, 0)
             ELSE FloatValue(b.position),
     yr |-> IF b.year # 0 THEN b.year ELSE 9999]

BookKeyLess(a, b) ==
    \/ FloatLess(a.pos, b.pos)
    \/ a.pos = b.pos /\ a.yr < b.yr

\* books.sort(key=sort_key): ascending, equal keys keep their order
RECURSIVE SortBooks(_)
SortBooks(books) ==
    IF books = <<>> THEN <<>>
    ELSE LET rest == SortBooks(SubSeq(books, 1, Len(books) - 1))
             b == books[Len(books)]
             n == Cardinality({k \in 1..Len(rest) :
                                  ~BookKeyLess(sort_key(b), sort_key(rest[k]))})
         IN  SubSeq(rest, 1, n) \o <<b>> \o SubSeq(rest, n + 1, Len(rest))

\* find_series_ids(target_names): the catalog rows whose lower-cased title
\* is a lower-cased target name, in row order, each under the name given
find_series_ids(names) ==
    LET hit == SelectSeq(ResolverSeries, LAMBDA r :
                   \E n \in names : Lower(n) = Lower(r.series_title))
    IN  [k \in 1..Len(hit) |->
            [name |-> CHOOSE n \in names : Lower(n) = Lower(hit[k].series_title),
             s |-> hit[k]]]

FoundIds(found) == {found[k].s.series_id : k \in 1..Len(found)}
ParentIds(found) == {found[k].s.series_parent : k \in 1..Len(found)} \ {0}

\* find_parent_series(parent_ids), as the set of the rows found
find_parent_series(parent_ids) ==
    {r \in Range(ResolverSeries) : r.series_id \in parent_ids}

\* find_sub_series(parent_ids): the child rows in row order; sub_series[pid]
\* is the subsequence with series_parent = pid
SubRows(parent_ids) ==
    SelectSeq(ResolverSeries, LAMBDA r : r.series_parent \in parent_ids)
SubSeriesOf(sub, pid) == SelectSeq(sub, LAMBDA r : r.series_parent = pid)

\* The keys of sub_series in insertion order.
RECURSIVE SubKeys(_)
SubKeys(sub) ==
    IF sub = <<>> THEN <<>>
    ELSE LET before == SubKeys(SubSeq(sub, 1, Len(sub) - 1))
             pid == sub[Len(sub)].series_parent
         IN  IF pid \in Range(before) THEN before ELSE Append(before, pid)

\* "merged_series_ids.add(child['series_id'])" for the children of targets
MergedSeriesIds(found, sub, merge) ==
    IF merge
    THEN {sub[k].series_id : k \in {j \in 1..Len(sub) : sub[j].series_parent \in FoundIds(found)}}
    ELSE {}

\* parent_name of a key of sub_series: the name of the found target with that
\* id, else the title of the parent row, else None (<<>>)
ParentName(found, parents, pid) ==
    IF \E k \in 1..Len(found) : found[k].s.series_id = pid
    THEN found[CHOOSE k \in 1..Len(found) : found[k].s.series_id = pid].name
    ELSE IF \E r \in parents : r.series_id = pid
    THEN (CHOOSE r \in parents : r.series_id = pid).series_title
    ELSE <<>>

\* all_series_ids after step 3
AllSeriesIds(found, parents, sub) ==
    FoundIds(found) \cup
    {sub[k].series_id : k \in {j \in 1..Len(sub) :
                                  ParentName(found, parents, sub[j].series_parent) # <<>>}}

\* titles, as find_titles_for_series(all_series_ids) returns them
TitlesFound(rows, all_series_ids) ==
    SelectSeq(rows, LAMBDA t : t.series_id \in all_series_ids)

\* the books.append({...}) of one title row
BookOf(t) ==
    [isfdb_title_id |-> t.title_id,
     position |-> IF t.seriesnum = <<>> THEN PyNone ELSE PyStr(t.seriesnum[1]),
     year |-> t.year]

BooksFor(titles, sid) ==
    LET own == SelectSeq(titles, LAMBDA t : t.series_id = sid)
    IN  [k \in 1..Len(own) |-> BookOf(own[k])]

\* max_pos: the largest float(b['position']) of the books, at least 0
RECURSIVE MaxPos(_)
MaxPos(books) ==
    IF books = <<>> THEN PyFloat(0, 0)
    ELSE LET m == MaxPos(SubSeq(books, 1, Len(books) - 1))
             b == books[Len(books)]
             p == IF b.position.type = "null" THEN PyFloat(0, 0)
                  ELSE FloatValue(b.position)
         IN  IF b.position.type # "null" /\ FloatRaises(b.position) THEN m
             ELSE IF FloatLess(m, p) THEN p ELSE m

\* "pos = float(pos) + max_pos" where it does not raise
OffsetBook(b, max_pos) ==
    IF b.position.type = "null" \/ FloatRaises(b.position) THEN b
    ELSE [b EXCEPT !.position = FloatAdd(FloatValue(b.position), max_pos)]

\* A faulty variant of MergedBooks: the children's positions are not offset.
RECURSIVE MergedBooksNoOffset(_, _, _)
MergedBooksNoOffset(titles, children, max_pos) ==
    IF children = <<>> THEN <<>>
    ELSE MergedBooksNoOffset(titles, SubSeq(children, 1, Len(children) - 1), max_pos)
         \o BooksFor(titles, children[Len(children)].series_id)

\* The books appended for children_to_merge, child after child.
RECURSIVE MergedBooks(_, _, _)
MergedBooks(titles, children, max_pos) ==
    IF children = <<>> THEN <<>>
    ELSE LET c == children[Len(children)]
             cb == BooksFor(titles, c.series_id)
         IN  MergedBooks(titles, SubSeq(children, 1, Len(children) - 1), max_pos)
             \o [k \in 1..Len(cb) |-> OffsetBook(cb[k], max_pos)]

\* The entry of one found target (first loop of step 7).
TargetEntry(titles, f, parents, sub, merged, merge) ==
    LET sid == f.s.series_id
        books == SortBooks(BooksFor(titles, sid))
        children_to_merge ==
            SelectSeq(SubSeriesOf(sub, sid), LAMBDA c : c.series_id \in merged)
    IN  [series_id |-> sid, series_title |-> f.s.series_title,
         books |-> IF merge /\ children_to_merge # <<>>
                   THEN SortBooks(books \o MergedBooks(titles, children_to_merge, MaxPos(books)))
                   ELSE books,
         \* the parent row's id, 0 without "parent_info"
         parent_info |-> IF \E r \in parents : r.series_id = f.s.series_parent
                         THEN f.s.series_parent ELSE 0]

\* The entry of one sub-series (second loop of step 7).
SubEntry(titles, found, parents, child) ==
    [series_id |-> child.series_id, series_title |-> child.series_title,
     books |-> SortBooks(BooksFor(titles, child.series_id)),
     \* the id of the found target or parent row, 0 for None
     parent_info |-> IF child.series_parent \in FoundIds(found)
                        \/ \E r \in parents : r.series_id = child.series_parent
                     THEN child.series_parent ELSE 0]

\* The children that get an entry of their own: "if csid in found_ids:
\* continue; if csid in merged_series_ids: continue"
SubEntriesKept(sub, found, merged) ==
    SelectSeq(sub, LAMBDA c : c.series_id \notin FoundIds(found) /\ c.series_id \notin merged)

\* sub_series.items() flattened: key after key, each key's children in order
RECURSIVE SubInKeyOrder(_, _)
SubInKeyOrder(sub, keys) ==
    IF keys = <<>> THEN <<>>
    ELSE SubSeriesOf(sub, Head(keys)) \o SubInKeyOrder(sub, Tail(keys))

\* series_data as step 7 assembles it
Assemble(rows, found, merge) ==
    LET parents == find_parent_series(ParentIds(found))
        sub == SubRows(FoundIds(found) \cup ParentIds(found))
        titles == TitlesFound(rows, AllSeriesIds(found, parents, sub))
        merged == MergedSeriesIds(found, sub, merge)
        own == SubEntriesKept(SubInKeyOrder(sub, SubKeys(sub)), found, merged)
    IN  [k \in 1..Len(found) |-> TargetEntry(titles, found[k], parents, sub, merged, merge)]
        \o [k \in 1..Len(own) |-> SubEntry(titles, found, parents, own[k])]

PositionTexts == {<<"1">>, <<"2">>, <<"1", ".", "5">>, <<"x">>, <<"1", "0", "0", "0">>}
SeriesNums == {<<>>} \cup {<<p>> : p \in PositionTexts}
TitleYears == {0, 1999, 9999}

TitleRow(id, sid, num, yr) ==
    [title_id |-> id, series_id |-> sid, seriesnum |-> num, year |-> yr]

\* M with books 1-3 and its child W with books 1-4; M with the positions
\* None, "2", "1", "1.5" and no years.
ExampleTitles ==
    { << TitleRow(1, 1, << <<"1">> >>, 2006), TitleRow(2, 1, << <<"2">> >>, 2007),
         TitleRow(3, 1, << <<"3">> >>, 2008), TitleRow(4, 2, << <<"1">> >>, 2011),
         TitleRow(5, 2, << <<"2">> >>, 2014), TitleRow(6, 2, << <<"3">> >>, 2016),
         TitleRow(7, 2, << <<"4">> >>, 2022) >>,
      << TitleRow(1, 1, <<>>, 0), TitleRow(2, 1, << <<"2">> >>, 0),
         TitleRow(3, 1, << <<"1">> >>, 0), TitleRow(4, 1, << <<"1", ".", "5">> >>, 0) >> }

CatalogTitles ==
    UNION { { [k \in 1..n |-> TitleRow(k, sr[k], nm[k], yr[k])] :
                sr \in [1..n -> {1, 2}], nm \in [1..n -> SeriesNums],
                yr \in [1..n -> TitleYears] }
            : n \in 0..MaxBooks } \cup ExampleTitles

InitResolve ==
    /\ catalog_titles \in CatalogTitles
    /\ store_exists \in BOOLEAN
    /\ rpc = "main"
    /\ target_names = {} /\ merge_children = FALSE /\ from_db = FALSE
    /\ found_series = <<>> /\ series_data = <<>> /\ trace = <<>>
    /\ IdleStore /\ IdleRun /\ IdleParse /\ IdleValue /\ IdleBackend /\ IdlePubs
    /\ IdleNorm /\ IdleTitle /\ IdleBatch /\ IdleFind

notResolve == <<storeVars, runVars, parseVars, valueVars, backendVars, pubsVars, normVars,
                titleVars, batchVars, findVars>>

\* main: "if not NACHOSERIES_DB.exists(): ... sys.exit(1)"
MainStoreAbsent ==
    /\ rpc = "main" /\ ~store_exists
    /\ rpc' = "exit" /\ trace' = Append(trace, "exit")
    /\ UNCHANGED <<notResolve, catalog_titles, store_exists, target_names,
                   merge_children, from_db, found_series, series_data>>

\* main with --from-db on a store without series, or without names on the
\* command line: the run ends before a backend is opened
MainNoTargets ==
    /\ rpc = "main" /\ store_exists
    /\ \E bulk \in BOOLEAN :
          /\ from_db' = bulk
          /\ trace' = IF bulk THEN <<"ns_read", "exit">> ELSE <<"exit">>
    /\ rpc' = "exit"
    /\ UNCHANGED <<notResolve, catalog_titles, store_exists, target_names,
                   merge_children, found_series, series_data>>

\* main up to the call of run_import or run_bulk_import; with --from-db the
\* names are the ones read from the destination store
MainStart ==
    /\ rpc = "main" /\ store_exists
    /\ \E names \in (SUBSET TargetNames) \ {{}}, merge \in BOOLEAN, bulk \in BOOLEAN :
          /\ target_names' = names /\ merge_children' = merge /\ from_db' = bulk
          /\ trace' = IF bulk THEN <<"ns_read">> ELSE <<>>
    /\ rpc' = "run"
    /\ UNCHANGED <<notResolve, catalog_titles, store_exists, found_series, series_data>>

\* A faulty variant of RunImportNoneFound: the run goes on to the import with
\* no entries.
RunImportNoneFoundGoesOn ==
    /\ rpc = "run" /\ ~from_db
    /\ find_series_ids(target_names) = <<>>
    /\ rpc' = "import" /\ trace' = trace \o <<"catalog_query", "ns_connect">>
    /\ UNCHANGED <<notResolve, catalog_titles, store_exists, target_names,
                   merge_children, from_db, found_series, series_data>>

\* run_import, no name found: "sys.exit(1)"
RunImportNoneFound ==
    /\ rpc = "run" /\ ~from_db
    /\ find_series_ids(target_names) = <<>>
    /\ rpc' = "exit" /\ trace' = trace \o <<"catalog_query", "exit">>
    /\ UNCHANGED <<notResolve, catalog_titles, store_exists, target_names,
                   merge_children, from_db, found_series, series_data>>

\* run_import, steps 1 to 8: import_to_nachoseries(series_data) connects
RunImport ==
    /\ rpc = "run" /\ ~from_db
    /\ find_series_ids(target_names) # <<>>
    /\ found_series' = find_series_ids(target_names)
    /\ series_data' = Assemble(catalog_titles, found_series', merge_children)
    /\ rpc' = "import" /\ trace' = trace \o <<"catalog_query", "ns_connect">>
    /\ UNCHANGED <<notResolve, catalog_titles, store_exists, target_names,
                   merge_children, from_db>>

\* run_bulk_import, no name found: "return"
RunBulkNoneFound ==
    /\ rpc = "run" /\ from_db
    /\ find_series_ids(target_names) = <<>>
    /\ rpc' = "return" /\ trace' = trace \o <<"catalog_query", "return">>
    /\ UNCHANGED <<notResolve, catalog_titles, store_exists, target_names,
                   merge_children, from_db, found_series, series_data>>

\* run_bulk_import, steps 1 and 2, up to "db = sqlite3.connect(...)"
RunBulk ==
    /\ rpc = "run" /\ from_db
    /\ find_series_ids(target_names) # <<>>
    /\ found_series' = find_series_ids(target_names)
    /\ rpc' = "bulk" /\ trace' = trace \o <<"catalog_query", "ns_connect">>
    /\ UNCHANGED <<notResolve, catalog_titles, store_exists, target_names,
                   merge_children, from_db, series_data>>

NextResolve ==
    \/ MainStoreAbsent
    \/ MainNoTargets
    \/ MainStart
    \/ RunImportNoneFound
    \/ RunImport
    \/ RunBulkNoneFound
    \/ RunBulk

SpecResolve == InitResolve /\ [][NextResolve]_vars

(***************************************************************************)
(* normalize called on a name, on its own result, and on a second name     *)
(* that differs from the first in letter case or in punctuation only.      *)
(***************************************************************************)
MaxNameLen == 4
NameChars == {"A", "b", CapitalSigma, "-", ".", " ", "_"}

\* The other case of a letter: A/a, b/B, and the small sigma for the capital.
SwapCase(c) ==
    IF c = CapitalSigma THEN SmallSigma
    ELSE IF c = SmallSigma THEN CapitalSigma
    ELSE IF \E k \in 1..Len(UpperChars) : UpperChars[k] = c THEN LowerChar(c)
    ELSE IF \E k \in 1..Len(LowerChars) : LowerChars[k] = c
    THEN UpperChars[CHOOSE k \in 1..Len(LowerChars) : LowerChars[k] = c]
    ELSE c

\* The names that differ from x in the case of some letters.
CaseVariants(x) ==
    {y \in [1..Len(x) -> Range(x) \cup {SwapCase(c) : c \in Range(x)}] :
        \A k \in 1..Len(x) : y[k] \in {x[k], SwapCase(x[k])}}

IsPunctuation(c) == ~IsWord(c) /\ ~IsSpace(c)

\* x without the characters at the positions in drop
Without(x, drop) ==
    LET keep == {k \in 1..Len(x) : k \notin drop}
        nth(n) == CHOOSE k \in keep : Cardinality({j \in keep : j < k}) = n - 1
    IN  [n \in 1..Cardinality(keep) |-> x[nth(n)]]

\* The names that are x with some of its punctuation characters left out.
PunctuationVariants(x) ==
    {Without(x, drop) : drop \in SUBSET {k \in 1..Len(x) : IsPunctuation(x[k])}}

InitNorm ==
    /\ norm_x \in SeqsUpTo(NameChars, MaxNameLen)
    /\ norm_y = <<>> /\ norm_out = NoNorm
    /\ IdleStore /\ IdleRun /\ IdleParse /\ IdleValue /\ IdleBackend /\ IdlePubs
    /\ IdleResolve /\ IdleTitle /\ IdleBatch /\ IdleFind

\* normalize(x), normalize(y) and normalize(normalize(x))
NormalizePair ==
    /\ ~norm_out.done
    /\ \E y \in CaseVariants(norm_x) \cup PunctuationVariants(norm_x) :
          /\ norm_y' = y
          /\ norm_out' = [done |-> TRUE, x |-> normalize(norm_x), y |-> normalize(y),
                          again |-> normalize(normalize(norm_x))]
    /\ UNCHANGED <<storeVars, runVars, parseVars, valueVars, backendVars, pubsVars,
                   resolveVars, titleVars, batchVars, findVars,
                   norm_x>>

NextNorm == NormalizePair

SpecNorm == InitNorm /\ [][NextNorm]_vars

(***************************************************************************)
(* is_excluded_title called on one title, and both backends asked for the  *)
(* titles of a series whose only row carries that title.                   *)
(***************************************************************************)
\* Titles the denylist is written for: the examples next to the patterns,
\* and variations of them.
DenylistedTitles ==
    {
      <<"T", "h", "e", " ", "F", "i", "n", "a", "l", " ", "E", "m", "p", "i", "r", "e",
        " ", "(", "e", "x", "c", "e", "r", "p", "t", ")">>,
      <<"E", "x", "c", "e", "r", "p", "t", " ", "f", "r", "o", "m", " ", "G", "o", "l",
        "d", "e", "n", " ", "S", "o", "n">>,
      <<"A", "p", "p", "e", "n", "d", "i", "x", ":", " ", "C", "a", "l", "e", "n", "d",
        "a", "r", " ", "a", "n", "d", " ", "C", "u", "r", "r", "e", "n", "c", "i", "e", "s">>,
      <<"D", "e", "l", "e", "t", "e", "d", " ", "S", "c", "e", "n", "e", "s", " ", "f",
        "r", "o", "m", " ", "t", "h", "e", " ", "2", "0", "0", "2", " ", "D", "r", "a",
        "f", "t">>,
      <<"D", "e", "l", "e", "t", "e", "d", " ", "S", "c", "e", "n", "e">>,
      <<"E", "n", "d", "n", "o", "t", "e">>,
      <<"P", "r", "e", "l", "u", "d", "e", " ", "t", "o", " ", "t", "h", "e", " ", "S",
        "t", "o", "r", "m", "l", "i", "g", "h", "t", " ", "A", "r", "c", "h", "i", "v", "e">>,
      <<"P", "r", "o", "l", "o", "g", "u", "e", " ", "(", "E", "d", "g", "e", "d", "a",
        "n", "c", "e", "r", ")">>,
      <<"D", "r", "a", "m", "a", "t", "i", "s", " ", "P", "e", "r", "s", "o", "n", "a",
        "e", " ", "(", "M", "o", "r", "n", "i", "n", "g", " ", "S", "t", "a", "r", ")">>,
      <<"u", "n", "t", "i", "t", "l", "e", "d", " ", "(", "M", "o", "r", "n", "i", "n",
        "g", " ", "S", "t", "a", "r", ")">>,
      <<"T", "h", "e", " ", "S", "t", "o", "r", "y", " ", "S", "o", " ", "F", "a", "r",
        ".", ".", ".", " ", "(", "M", "o", "r", "n", "i", "n", "g", " ", "S", "t", "a",
        "r", ")">>,
      <<"T", "h", "e", " ", "A", "l", "l", "o", "y", " ", "o", "f", " ", "L", "a", "w",
        ":", " ", "P", "r", "o", "l", "o", "g", "u", "e", " ", "-", " ", "C", "h", "a",
        "p", "t", "e", "r", " ", "6">>,
      <<"T", "h", "e", " ", "R", "o", "s", "h", "a", "r", "a", "n", " ", "S", "y", "s",
        "t", "e", "m">>,
      <<"S", "c", "a", "d", "r", "i", "a", "n", " ", "S", "y", "s", "t", "e", "m">>,
      <<"I", "r", "o", "n", " ", "G", "o", "l", "d", ":", " ", "E", "x", "t", "e", "n",
        "d", "e", "d", " ", "E", "x", "c", "e", "r", "p", "t">>,
      <<"F", "i", "r", "s", "t", " ", "D", "r", "a", "f", "t", ":", " ", "S", "i", "x",
        "t", "h", " ", "o", "f", " ", "t", "h", "e", " ", "D", "u", "s", "k">>,
      <<"E", "d", "i", "t", "s", ":", " ", "S", "i", "x", "t", "h", " ", "o", "f", " ",
        "t", "h", "e", " ", "D", "u", "s", "k">>,
      <<"A", "P", "P", "E", "N", "D", "I", "X", ":", " ", "M", "A", "P", "S">>,
      <<"T", "h", "e", " ", "S", "y", "s", "t", "e", "m">>,
      <<"M", "i", "s", "t", "b", "o", "r", "n", ":", "C", "h", "a", "p", "t", "e", "r",
        " ", "1">> }

\* Titles of books, some of them close to a pattern.
BookTitles ==
    {
      <<"T", "h", "e", " ", "F", "i", "n", "a", "l", " ", "E", "m", "p", "i", "r", "e">>,
      <<"T", "h", "e", " ", "W", "a", "y", " ", "o", "f", " ", "K", "i", "n", "g", "s">>,
      <<"E", "n", "d", "n", "o", "t", "e", "s">>,
      <<"P", "r", "e", "l", "u", "d", "e">>,
      <<"E", "x", "c", "e", "r", "p", "t", " ", "f", "r", "o", "m", "a", "g", "e">>,
      <<"D", "e", "l", "e", "t", "e", "d", " ", "S", "c", "e", "n", "e", "r", "y">>,
      <<"P", "r", "o", "l", "o", "g", "u", "e">>,
      <<"U", "n", "t", "i", "t", "l", "e", "d">>,
      <<"T", "h", "e", " ", "S", "o", "l", "a", "r", " ", "S", "y", "s", "t", "e", "m",
        " ", "W", "a", "r", "s">>,
      <<"S", "y", "s", "t", "e", "m">>,
      <<"C", "h", "a", "p", "t", "e", "r", " ", "1">>,
      <<"A", "n", " ", "A", "p", "p", "e", "n", "d", "i", "x", ":", " ", "M", "a", "p", "s">>,
      <<"T", "h", "e", " ", "L", "o", "s", "t", " ", "M", "e", "t", "a", "l", ":", " ",
        "E", "p", "i", "l", "o", "g", "u", "e">>,
      <<"F", "i", "r", "s", "t", " ", "D", "r", "a", "f", "t", "s">>,
      <<"E", "d", "i", "t", "s">> }

TitleUniverse == DenylistedTitles \cup BookTitles \cup {<<>>}

InitTitle ==
    /\ title_in \in TitleUniverse
    /\ title_out = NoTitleOut
    /\ titles_table = << [title_id |-> 1, title_title |-> title_in, series_id |-> 1,
                           title_ttype |-> "NOVEL", title_parent |-> <<0>>,
                           title_language |-> <<ENGLISH_LANG_ID>>] >>
    /\ q_series_ids = {1}
    /\ res_sqlite = NoResult /\ res_dump = NoResult
    /\ IdleStore /\ IdleRun /\ IdleParse /\ IdleValue /\ IdlePubs /\ IdleResolve /\ IdleNorm
    /\ IdleBatch /\ IdleFind

\* is_excluded_title(title)
CheckTitle ==
    /\ ~title_out.done
    /\ title_out' = [done |-> TRUE, excluded |-> is_excluded_title(title_in)]
    /\ UNCHANGED <<storeVars, runVars, parseVars, valueVars, backendVars, pubsVars,
                   resolveVars, normVars, batchVars, findVars,
                   title_in>>

NextTitle ==
    \/ CheckTitle
    \/ QuerySqlite
    \/ QueryDump

SpecTitle == InitTitle /\ [][NextTitle]_vars

(***************************************************************************)
(* The identifier-set queries of ISFDBSqlite.  The identifiers asked for   *)
(* are q_ids, a list without repetitions; table_ids are the identifiers    *)
(* the queried column holds.  A statement is recorded with the number of   *)
(* parameters it binds; the store refuses a statement that binds more than *)
(* its limit, and the query then ends with sqlite3.OperationalError.       *)
(***************************************************************************)
MaxIds == 1802
BATCH_SIZE == 900
SQLITE_MAX_VARIABLE_NUMBER == 999

\* the sizes around the batch size, the limit, and their multiples
QuerySizes ==
    {n \in 0..MaxIds : \/ n <= 2
                       \/ n \in 898..902
                       \/ n \in 994..1001
                       \/ n \in 1798..1802}

\* "for i in range(0, len(l), 900): batch = l[i:i+900]"
Batches(l) ==
    [b \in 1..((Len(l) + BATCH_SIZE - 1) \div BATCH_SIZE) |->
        SubSeq(l, (b - 1) * BATCH_SIZE + 1, Min({b * BATCH_SIZE, Len(l)}))]

\* "SELECT ... WHERE col IN (?, ..., ?)" with the batch and extra further
\* parameters bound: the statement, and the identifiers of the rows it returns
InStatement(batch, extra) == [params |-> Len(batch) + extra]
RowsIn(batch, table) == Range(batch) \cap table

Refused(st) == st.params > SQLITE_MAX_VARIABLE_NUMBER

\* what the query returns after these statements
QueryResult(stmts, ids) ==
    IF \E k \in 1..Len(stmts) : Refused(stmts[k])
    THEN [done |-> TRUE, error |-> TRUE, ids |-> {}]
    ELSE [done |-> TRUE, error |-> FALSE, ids |-> ids]

\* a loop over the batches, one statement each, the rows merged
BatchedQuery(l, table) ==
    CHOOSE q \in {[stmts |-> [b \in 1..Len(bs) |-> InStatement(bs[b], 0)],
                   ids |-> UNION {RowsIn(bs[b], table) : b \in 1..Len(bs)}] :
                      bs \in {Batches(l)}} : TRUE

\* one statement for the whole list, with extra further parameters
SingleQuery(l, table, extra) ==
    [stmts |-> <<InStatement(l, extra)>>, ids |-> RowsIn(l, table)]

QueryNames ==
    {"find_series_ids", "find_parent_series", "find_sub_series", "find_titles_for_series",
     "find_authors_for_titles", "find_author_names", "find_pubs_for_titles"}

InitBatch ==
    /\ q_name \in QueryNames
    /\ \E n \in QuerySizes : q_ids = [k \in 1..n |-> k]
    /\ table_ids \in {{}, 1..MaxIds, {k \in 1..MaxIds : k % 2 = 1}}
    /\ statements = <<>> /\ q_result = NoQueryResult
    /\ IdleStore /\ IdleRun /\ IdleParse /\ IdleValue /\ IdleBackend /\ IdlePubs
    /\ IdleResolve /\ IdleNorm /\ IdleTitle /\ IdleFind

notBatch == <<storeVars, runVars, parseVars, valueVars, backendVars, pubsVars,
              resolveVars, normVars, titleVars, findVars>>

Returns(q) ==
    /\ \E r \in {q} : /\ statements' = r.stmts
                      /\ q_result' = QueryResult(r.stmts, r.ids)
    /\ UNCHANGED <<notBatch, q_name, q_ids, table_ids>>

\* ISFDBSqlite.find_series_ids(target_names)
FindSeriesIds ==
    /\ q_name = "find_series_ids" /\ ~q_result.done
    /\ Returns(BatchedQuery(q_ids, table_ids))

\* ISFDBSqlite.find_parent_series(parent_ids): no statement for no ids
FindParentSeries ==
    /\ q_name = "find_parent_series" /\ ~q_result.done
    /\ Returns(IF q_ids = <<>> THEN [stmts |-> <<>>, ids |-> {}]
               ELSE SingleQuery(q_ids, table_ids, 0))

\* ISFDBSqlite.find_sub_series(parent_ids): no statement for no ids
FindSubSeries ==
    /\ q_name = "find_sub_series" /\ ~q_result.done
    /\ Returns(IF q_ids = <<>> THEN [stmts |-> <<>>, ids |-> {}]
               ELSE SingleQuery(q_ids, table_ids, 0))

\* ISFDBSqlite.find_titles_for_series(series_ids): the series ids, the
\* title types and the language in one statement
FindTitlesForSeries ==
    /\ q_name = "find_titles_for_series" /\ ~q_result.done
    /\ Returns(SingleQuery(q_ids, table_ids, Cardinality(INCLUDED_TITLE_TYPES) + 1))

\* ISFDBSqlite.find_authors_for_titles(title_ids)
FindAuthorsForTitles ==
    /\ q_name = "find_authors_for_titles" /\ ~q_result.done
    /\ Returns(BatchedQuery(q_ids, table_ids))

\* ISFDBSqlite.find_author_names(author_ids)
FindAuthorNames ==
    /\ q_name = "find_author_names" /\ ~q_result.done
    /\ Returns(IF q_ids = <<>> THEN [stmts |-> <<>>, ids |-> {}]
               ELSE BatchedQuery(q_ids, table_ids))

\* ISFDBSqlite.find_pubs_for_titles(title_ids): the loop over pub_content,
\* then the loop over the pub ids found (here each title's pub has its id)
FindPubsForTitles ==
    /\ q_name = "find_pubs_for_titles" /\ ~q_result.done
    /\ \E first \in {BatchedQuery(q_ids, table_ids)} :
       \E pub_list \in {SelectSeq(q_ids, LAMBDA k : k \in first.ids)} :
       \E second \in {BatchedQuery(pub_list, table_ids)} :
           Returns([stmts |-> first.stmts \o second.stmts, ids |-> second.ids])

NextBatch ==
    \/ FindSeriesIds
    \/ FindParentSeries
    \/ FindSubSeries
    \/ FindTitlesForSeries
    \/ FindAuthorsForTitles
    \/ FindAuthorNames
    \/ FindPubsForTitles

SpecBatch == InitBatch /\ [][NextBatch]_vars

(***************************************************************************)
(* find_series_ids of both backends on the same rows of the series table,  *)
(* in series_id order.  target_names is a list; series_title is <<>> for   *)
(* NULL and <<text>> for a text.  The result is the dict found: a function *)
(* from the names that are its keys to series rows.                        *)
(***************************************************************************)
MaxNames == 2
MaxSeriesRows == 2

FindNames ==
    { <<"A">>, <<"a">>, <<"A", "b">>, <<"a", "B">>, <<"b">>, <<CapitalEAcute>> }
FindTitles == {<<>>, <<<<>>>>} \cup {<<n>> : n \in FindNames}

SeriesTables ==
    UNION { { [k \in 1..n |-> [series_id |-> k, series_title |-> tt[k]]] :
                tt \in [1..n -> FindTitles] }
            : n \in 0..MaxSeriesRows }

\* "found[orig] = {...}"
DictPut(d, key, v) == [k \in DOMAIN d \cup {key} |-> IF k = key THEN v ELSE d[k]]

\* "target_lower = {name.lower(): name for name in target_names}": a later
\* name replaces an earlier one with the same lower-case form
target_lower(names) ==
    [l \in {Lower(names[k]) : k \in 1..Len(names)} |->
        names[Max({k \in 1..Len(names) : Lower(names[k]) = l})]]

\* LOWER() of SQLite: the letters A to Z only
SqlLower(s) == [k \in 1..Len(s) |-> LowerChar(s[k])]

\* "SELECT * FROM series WHERE LOWER(series_title) IN (...)" with the
\* lower-case names bound; no row for a NULL title
SqliteSeriesRows(rows, names) ==
    SelectSeq(rows, LAMBDA r :
        /\ r.series_title # <<>>
        /\ \E k \in 1..Len(names) : SqlLower(r.series_title[1]) = Lower(names[k]))

\* "for row in rows: if title and title.lower() in target_lower:
\*  found[target_lower[title.lower()]] = {...}"
RECURSIVE FoundIn(_, _, _)
FoundIn(rows, tl, found) ==
    IF rows = <<>> THEN found
    ELSE LET title == Head(rows).series_title
         IN  IF title # <<>> /\ title # <<<<>>>> /\ Lower(title[1]) \in DOMAIN tl
             THEN FoundIn(Tail(rows), tl, DictPut(found, tl[Lower(title[1])], Head(rows)))
             ELSE FoundIn(Tail(rows), tl, found)

InitFind ==
    /\ find_names \in SeqsUpTo(FindNames, MaxNames)
    /\ series_table \in SeriesTables
    /\ found_sqlite = NoFound /\ found_dump = NoFound
    /\ IdleStore /\ IdleRun /\ IdleParse /\ IdleValue /\ IdleBackend /\ IdlePubs
    /\ IdleResolve /\ IdleNorm /\ IdleTitle /\ IdleBatch

notFind == <<storeVars, runVars, parseVars, valueVars, backendVars, pubsVars,
             resolveVars, normVars, titleVars, batchVars>>

\* ISFDBSqlite(...).find_series_ids(target_names)
FindSqlite ==
    /\ ~found_sqlite.done
    /\ found_sqlite' =
          [done |-> TRUE,
           found |-> FoundIn(SqliteSeriesRows(series_table, find_names),
                             target_lower(find_names), <<>>)]
    /\ UNCHANGED <<notFind, find_names, series_table, found_dump>>

\* ISFDBDump(...).find_series_ids(target_names)
FindDump ==
    /\ ~found_dump.done
    /\ found_dump' =
          [done |-> TRUE,
           found |-> FoundIn(series_table, target_lower(find_names), <<>>)]
    /\ UNCHANGED <<notFind, find_names, series_table, found_sqlite>>

NextFind ==
    \/ FindSqlite
    \/ FindDump

SpecFind == InitFind /\ [][NextFind]_vars

(***************************************************************************)
(* Claims about the import engine, checked under Spec.                     *)
(***************************************************************************)
RunningReal == pc \in {"import", "bulk"} /\ ~dry_run
LastRun == log[Len(log)]

\* The run in progress is a full import that follows a completed full import
\* of the same entries.
SecondFullRun ==
    /\ pc = "import" /\ ~dry_run
    /\ log # <<>> /\ LastRun.mode = "full" /\ ~LastRun.dry /\ LastRun.done

\* Every populated column of row a is unchanged in row b.
PopulatedKept(a, b) ==
    /\ b.id = a.id
    /\ a.name # <<>> => b.name = a.name
    /\ a.name_normalized # <<>> => b.name_normalized = a.name_normalized
    /\ a.author # "" => b.author = a.author
    /\ a.total_books # 0 => b.total_books = a.total_books
    /\ a.year_start # 0 => b.year_start = a.year_start
    /\ a.year_end # 0 => b.year_end = a.year_end
    /\ a.confidence # 0 => b.confidence = a.confidence
    /\ a.verified # 0 => b.verified = a.verified
    /\ a.isfdb_id # 0 => b.isfdb_id = a.isfdb_id
    /\ a.created_at # 0 => b.created_at = a.created_at
    /\ a.updated_at # 0 => b.updated_at = a.updated_at
    /\ a.parent_series_id # 0 => b.parent_series_id = a.parent_series_id

\* C1: a full import run a second time with the same entries inserts no
\* series, series_book or source_data row, counts none, and changes no
\* column that was populated after the first run.
C1_Idempotent ==
    [][SecondFullRun =>
          /\ Len(series') = Len(series)
          /\ series_book' = series_book
          /\ source_data' = source_data
          /\ \A k \in 1..Len(series) : PopulatedKept(series[k], series'[k])
          /\ pc' = "import" =>
                /\ counts'.series_inserted = 0
                /\ counts'.books_inserted = 0
                /\ counts'.source_inserted = 0]_vars

\* C2: while a preview run (dry_run) is in progress no step changes the
\* series, series_book or source_data table, nor what is committed.
C2_PreviewWritesNothing ==
    [][(pc \in {"import", "bulk"} /\ dry_run) => UNCHANGED storeVars]_vars

\* A completed preview of a full import that counted an insert and an update
\* and a completed preview of a bulk backfill that counted an update.
C2_Witness ==
    /\ Len(log) = 2
    /\ \E k \in 1..2 :
          /\ log[k].mode = "full" /\ log[k].dry /\ log[k].done
          /\ log[k].counts.series_inserted > 0
          /\ log[k].counts.series_updated > 0
    /\ \E k \in 1..2 :
          /\ log[k].mode = "bulk" /\ log[k].dry /\ log[k].done
          /\ log[k].counts.updated_isfdb_id > 0

\* C3 (as claimed): a preview run and the real run that follows it on the
\* same input and the same store report the same summary counts.
C3_PreviewCountsMatch ==
    \A k \in 1..(Len(log) - 1) :
        (/\ log[k].done /\ log[k].dry
         /\ log[k + 1].done /\ ~log[k + 1].dry
         /\ log[k + 1].mode = log[k].mode)
        => log[k + 1].counts = log[k].counts

\* Row k of table b holds the external identifier and the parent link that
\* row k of table a holds, wherever a holds one.
LinksKept(a, b) ==
    \A k \in 1..Len(a) :
        /\ k <= Len(b)
        /\ a[k].isfdb_id # 0 => b[k].isfdb_id = a[k].isfdb_id
        /\ a[k].parent_series_id # 0 => b[k].parent_series_id = a[k].parent_series_id

\* C4: across full-import and bulk-backfill runs a populated isfdb_id and a
\* populated parent_series_id never change: not in the committed store, and
\* not in the tables of a run as long as it goes on.
C4_PopulatedNeverOverwritten ==
    [][/\ LinksKept(durable.series, durable'.series)
       /\ pc' # "idle" => LinksKept(series, series')]_vars

\* A real run has just processed an entry whose record in the store holds
\* another external identifier than the entry's and another parent than the
\* entry's parent resolves to.
C4_Witness ==
    /\ RunningReal
    /\ idx > 1
    /\ \E k \in 1..Len(series) :
          /\ series[k].name_normalized = normalize(entries[idx - 1].series_title)
          /\ series[k].isfdb_id \notin {0, entries[idx - 1].series_id}
          /\ entries[idx - 1].parent_info.series_id \in DOMAIN parent_stub_ids
          /\ series[k].parent_series_id
                \notin {0, parent_stub_ids[entries[idx - 1].parent_info.series_id]}
          /\ \A j \in 1..Len(series) :
                j # k => /\ series[j].name_normalized # series[k].name_normalized
                         /\ series[j].isfdb_id # entries[idx - 1].series_id

\* C5: what is committed changes only in the one step that ends a real run
\* after its last entry, and becomes the run's tables as a whole; a run that
\* ends in any other way leaves the store as committed before it.
C5_SingleTransaction ==
    [][/\ durable' # durable =>
             /\ RunningReal /\ idx > Len(entries) /\ pc' = "idle"
             /\ durable' = [series |-> series, series_book |-> series_book,
                            source_data |-> source_data]
       /\ pc' = "idle" =>
             /\ series' = durable'.series
             /\ series_book' = durable'.series_book
             /\ source_data' = durable'.source_data]_vars

\* A real run was terminated after it had written, and the store holds
\* nothing of it.
C5_Witness ==
    /\ pc = "idle"
    /\ log # <<>> /\ LastRun.mode = "killed-dirty"
    /\ series = durable.series
    /\ \A k \in 1..Len(series) : series[k].updated_at = 0

(***************************************************************************)
(* Claims about the tuple parser, checked under SpecParse, SpecParseFair   *)
(* and SpecValue.                                                          *)
(***************************************************************************)
\* This step ends a field: a value is appended to the row.
FieldEnds == ppc = "inner" /\ (Len(values') = Len(values) + 1)
EndedValue == values'[Len(values')]

\* The field text is '...' and between the quotes every quote is escaped.
RECURSIVE EscapedInner(_)
EscapedInner(s) ==
    IF s = <<>> THEN TRUE
    ELSE IF s[1] = "\\" THEN Len(s) >= 2 /\ EscapedInner(SubSeq(s, 3, Len(s)))
    ELSE s[1] # "'" /\ EscapedInner(Tail(s))

QuotedField(s) ==
    /\ Len(s) >= 2 /\ s[1] = "'" /\ s[Len(s)] = "'"
    /\ EscapedInner(SubSeq(s, 2, Len(s) - 1))

EscapeOf(c) ==
    CASE c = "n" -> "\n"
      [] c = "r" -> "\r"
      [] c = "t" -> "\t"
      [] OTHER -> c

\* Each escape pair decoded on its own, left to right.
RECURSIVE PairwiseDecoded(_)
PairwiseDecoded(s) ==
    IF s = <<>> THEN <<>>
    ELSE IF Len(s) >= 2 /\ s[1] = "\\" /\ s[2] \in {"'", "\\", "n", "r", "t"}
         THEN <<EscapeOf(s[2])>> \o PairwiseDecoded(SubSeq(s, 3, Len(s)))
         ELSE <<s[1]>> \o PairwiseDecoded(Tail(s))

\* C7 (as claimed): the value returned for a single-quoted field is the text
\* between the quotes with each escape pair (\' \\ \n \r \t) decoded
\* independently, left to right.
C7_EscapesDecodedPairwise ==
    [][(FieldEnds /\ QuotedField(current)) =>
          EndedValue = PyStr(PairwiseDecoded(SubSeq(current, 2, Len(current) - 1)))]_vars

\* The number of values of each row the statement closes, counted on the
\* text alone: a row runs from a "(" outside any row to the next ")"
\* outside a quoted text, and has one field more than it has commas outside
\* quoted text.  mode is "out", "row", "str" or "esc".
RECURSIVE RowArities(_, _, _, _, _)
RowArities(d, k, mode, n, acc) ==
    IF k > Len(d) THEN acc
    ELSE CASE mode = "out" ->
                  IF d[k] = "(" THEN RowArities(d, k + 1, "row", 0, acc)
                  ELSE RowArities(d, k + 1, "out", n, acc)
           [] mode = "row" ->
                  IF d[k] = "'" THEN RowArities(d, k + 1, "str", n, acc)
                  ELSE IF d[k] = "," THEN RowArities(d, k + 1, "row", n + 1, acc)
                  ELSE IF d[k] = ")" THEN RowArities(d, k + 1, "out", 0, Append(acc, n + 1))
                  ELSE RowArities(d, k + 1, "row", n, acc)
           [] mode = "str" ->
                  IF d[k] = "\\" THEN RowArities(d, k + 1, "esc", n, acc)
                  ELSE IF d[k] = "'" THEN RowArities(d, k + 1, "row", n, acc)
                  ELSE RowArities(d, k + 1, "str", n, acc)
           [] OTHER -> RowArities(d, k + 1, "str", n, acc)

Scanning == ppc = "inner" /\ i <= Len(data)

\* C8: inside a quoted text a comma or a closing parenthesis ends neither the
\* field nor the row; a quote that follows an unconsumed backslash does not
\* toggle string mode; a quote that follows a backslash-backslash pair closes
\* the string; and every returned row has one value per top-level field.
C8_BoundariesOutsideStrings ==
    [][/\ (Scanning /\ in_string /\ data[i] \in {",", ")"}) =>
             /\ values' = values /\ tuples' = tuples
             /\ in_string' /\ ppc' = "inner"
             /\ current' = Append(current, data[i])
       /\ (Scanning /\ escape_next /\ data[i] = "'") =>
             /\ in_string' = in_string
             /\ values' = values /\ tuples' = tuples
       /\ (Scanning /\ in_string /\ ~escape_next /\ data[i] = "'"
                    /\ i > 2 /\ data[i - 1] = "\\" /\ data[i - 2] = "\\") =>
             ~in_string'
       /\ (ppc' = "done" /\ ppc # "done") =>
             /\ Len(tuples') = Len(RowArities(data', 1, "out", 0, <<>>))
             /\ \A r \in 1..Len(tuples') :
                   Len(tuples'[r]) = RowArities(data', 1, "out", 0, <<>>)[r]]_vars

\* A returned row holds a text with a comma and a closing parenthesis in it,
\* another holds a text with a quote in it, and one a text that ends with a
\* backslash.
C8_Witness ==
    /\ ppc = "done"
    /\ Len(tuples) >= 2
    /\ \E r \in 1..Len(tuples) : \E f \in 1..Len(tuples[r]) :
          {",", ")"} \subseteq Range(tuples[r][f].text)
    /\ \E r \in 1..Len(tuples) : \E f \in 1..Len(tuples[r]) :
          "'" \in Range(tuples[r][f].text)
    /\ \E r \in 1..Len(tuples) : \E f \in 1..Len(tuples[r]) :
          tuples[r][f].text = <<"\\">>
    /\ \E r \in 1..Len(tuples) : Len(tuples[r]) >= 3

\* C9: once called, parse_mysql_tuples returns; a row it has recorded stays
\* recorded, in its place; and it returns as many rows as the text closes,
\* whatever follows them.
C9_ReturnsClosedRows ==
    /\ (ppc \in {"outer", "inner"}) ~> (ppc = "done")
    /\ [][/\ IsPrefix(tuples, tuples')
          /\ (ppc' = "done" /\ ppc # "done") =>
                Len(tuples') = Len(RowArities(data', 1, "out", 0, <<>>))]_vars

\* The function has returned a row from a statement that ends inside a
\* quoted text that is never closed.
C9_Witness ==
    /\ ppc = "done"
    /\ in_string
    /\ Len(tuples) >= 1
    /\ i = Len(data) + 1

\* The text without its leading and trailing whitespace.
Trimmed(s) ==
    LET ks == {k \in 1..Len(s) : ~IsSpace(s[k])}
    IN  IF ks = {} THEN <<>> ELSE SubSeq(s, Min(ks), Max(ks))

IsNullWord(s) == s = <<"N", "U", "L", "L">>
InQuotes(s) == Len(s) >= 2 /\ s[1] = "'" /\ s[Len(s)] = "'"
BareLiteral(s) == ~IsNullWord(s) /\ ~(s # <<>> /\ s[1] = "'" /\ s[Len(s)] = "'")
HasPoint(s) == "." \in Range(s)

\* What parse_mysql_value returned for val_str, case by case; leftover is
\* the text a bare literal that is no number is returned as.
ValueTyped(leftover) ==
    LET s == Trimmed(val_str)
    IN  /\ IsNullWord(s) => val_out = PyNone
        /\ InQuotes(s) =>
              /\ val_out.type = "text"
              /\ "\\" \notin Range(s) => val_out.text = SubSeq(s, 2, Len(s) - 1)
        /\ (BareLiteral(s) /\ ~HasPoint(s) /\ IntValid(s)) =>
              val_out = PyInt(Signed(s, DigitsVal(Unsigned(s))))
        /\ (BareLiteral(s) /\ HasPoint(s) /\ FloatValid(s)) =>
              val_out.type = "float" /\ val_out = FloatOf(s)
        /\ (BareLiteral(s) /\ ~HasPoint(s) /\ ~IntValid(s)) => val_out = PyStr(leftover)
        /\ (BareLiteral(s) /\ HasPoint(s) /\ ~FloatValid(s)) => val_out = PyStr(leftover)

\* C10 (as claimed): NULL is null, a quoted field is text, a bare integer
\* literal an integer, a bare literal with a decimal point that is a number
\* a float, and a bare literal that is no number is returned as the original
\* text, unchanged.
C10_LeftoverIsOriginalText ==
    val_out # NoValue => ValueTyped(val_str)

\* C10 (amended): the same, except that a bare literal that is no number is
\* returned as the original text without its leading and trailing whitespace.
C10_LeftoverIsTrimmedText ==
    val_out # NoValue => ValueTyped(Trimmed(val_str))

\* A bare literal with a digit in it that is no number and has whitespace
\* around it has been returned.
C10_Witness ==
    /\ val_out # NoValue
    /\ BareLiteral(Trimmed(val_str))
    /\ "1" \in Range(val_str)
    /\ Trimmed(val_str) # val_str
    /\ val_out.type = "text"

(***************************************************************************)
(* Claims about the catalog backends, checked under SpecBackend.           *)
(***************************************************************************)
\* C6 (as claimed): on the same catalog rows the two backends return equal
\* results, also for rows whose language or parent title is NULL.
C6_BackendParity ==
    (res_sqlite.done /\ res_dump.done) => res_sqlite = res_dump

(***************************************************************************)
(* Claims about the edition selector, checked under SpecPubs.              *)
(***************************************************************************)
\* The editions of a title: the pubs rows its pub_content pairs name.
EditionsOf(t) ==
    {pubs_table[k] : k \in {j \in 1..Len(pubs_table) : <<t, pubs_table[j].pub_id>> \in pub_content}}

\* The ranking key as stated: (has an identifying code, format rank).
EditionKey(p) ==
    << IF p.pub_isbn # <<>> /\ p.pub_isbn # <<"">> THEN 1 ELSE 0,
       IF p.pub_ptype \in {<<"hc">>, <<"tp">>} THEN 2
       ELSE IF p.pub_ptype = <<"ebook">> THEN 1 ELSE 0 >>

KeyBelow(a, b) == a[1] < b[1] \/ (a[1] = b[1] /\ a[2] < b[2])

EditionSelected(res) ==
    res.done =>
        /\ DOMAIN res.info \subseteq q_title_ids
        /\ \A t \in q_title_ids :
              IF EditionsOf(t) = {} THEN t \notin DOMAIN res.info
              ELSE /\ t \in DOMAIN res.info
                   /\ res.info[t] \in EditionsOf(t)
                   /\ \A e \in EditionsOf(t) :
                         ~KeyBelow(EditionKey(res.info[t]), EditionKey(e))

\* C11: in both backends the edition returned for a title with at least one
\* known edition is one of its editions with the lexicographically largest
\* key (has identifying code, format rank), and a title with no known edition
\* has no entry in the result.
C11_EditionHasMaximalKey ==
    EditionSelected(pub_info_sqlite) /\ EditionSelected(pub_info_dump)

\* Both backends answered; title 1 had two editions with different keys, the
\* better one listed second, and title 2 only a pair naming an unknown pub.
C11_Witness ==
    /\ pub_info_sqlite.done /\ pub_info_dump.done
    /\ q_title_ids = {1, 2}
    /\ Cardinality(EditionsOf(1)) = 2
    /\ Len(pubs_table) = 2
    /\ KeyBelow(EditionKey(pubs_table[1]), EditionKey(pubs_table[2]))
    /\ pub_info_sqlite.info[1] = pubs_table[2]
    /\ EditionsOf(2) = {} /\ \E c \in pub_content : c[1] = 2
    /\ 2 \notin DOMAIN pub_info_dump.info

(***************************************************************************)
(* Claims about the resolver, checked under SpecResolve.                   *)
(***************************************************************************)
Resolved == rpc = "import"
Numbered(b) == ~FloatRaises(b.position)
PositionOf(b) == FloatValue(b.position)

\* Book a may stand before book b in a list sorted by position, then year,
\* with unnumbered books and books without a year last.
MayPrecede(a, b) ==
    /\ Numbered(b) => Numbered(a)
    /\ Numbered(a) /\ Numbered(b) =>
          /\ ~FloatLess(PositionOf(b), PositionOf(a))
          /\ PositionOf(a) = PositionOf(b) =>
                /\ b.year # 0 => a.year # 0
                /\ a.year # 0 /\ b.year # 0 => a.year <= b.year

\* C12: in every resolved entry the books are in ascending order of position,
\* every book with an absent or non-numeric position stands after all books
\* with a numeric position, and books with equal positions are in ascending
\* order of year with an absent year last.
C12_BooksOrdered ==
    Resolved =>
        \A e \in 1..Len(series_data) :
            \A k, j \in 1..Len(series_data[e].books) :
                k < j => MayPrecede(series_data[e].books[k], series_data[e].books[j])

\* The series of the catalog that are direct children of sid.
ChildrenOf(sid) == {r \in Range(ResolverSeries) : r.series_parent = sid}
TitlesOf(sid) == {t \in Range(catalog_titles) : t.series_id = sid}
RawPosition(t) == IF t.seriesnum = <<>> THEN PyNone ELSE PyStr(t.seriesnum[1])
HasNumber(t) == ~FloatRaises(RawPosition(t))

\* M of a target: the largest numeric position of its own books, 0 without.
OwnMax(sid) ==
    LET nums == {FloatValue(RawPosition(t)) : t \in {u \in TitlesOf(sid) : HasNumber(u)}}
    IN  IF nums = {} THEN PyFloat(0, 0)
        ELSE CHOOSE m \in nums : \A x \in nums : ~FloatLess(m, x)

\* The book of the list that was made from title t.
BookFrom(books, t) == books[CHOOSE k \in 1..Len(books) : books[k].isfdb_title_id = t.title_id]

MergedInto(entry) ==
    LET sid == entry.series_id
        kids == UNION {TitlesOf(c.series_id) : c \in ChildrenOf(sid)}
        books == entry.books
    IN  /\ Len(books) = Cardinality(TitlesOf(sid)) + Cardinality(kids)
        /\ {books[k].isfdb_title_id : k \in 1..Len(books)} =
               {t.title_id : t \in TitlesOf(sid) \cup kids}
        /\ \A t \in TitlesOf(sid) : BookFrom(books, t).position = RawPosition(t)
        /\ \A t \in kids :
              /\ t.seriesnum = <<>> => BookFrom(books, t).position = PyNone
              /\ HasNumber(t) =>
                    BookFrom(books, t).position =
                        FloatAdd(FloatValue(RawPosition(t)), OwnMax(sid))
        /\ \A k, j \in 1..Len(books) :
              k < j => ~BookKeyLess(sort_key(books[j]), sort_key(books[k]))

\* C13: with merge mode on, the entry of a target holds its own books with
\* their positions and every book of each direct child, a numbered child book
\* at its position plus the largest numeric position of the target's own
\* books, an unnumbered one still unnumbered, the whole list sorted by the
\* same key.
C13_MergeWithOffset ==
    Resolved /\ merge_children =>
        \A e \in 1..Len(series_data) :
            series_data[e].series_id \in FoundIds(found_series) =>
                MergedInto(series_data[e])

\* M with books 1-3 and W with books 1-4, merged: 7 books, W's first book at
\* position 4.
C13_Witness ==
    /\ Resolved /\ merge_children /\ target_names = {<<"M">>}
    /\ Len(catalog_titles) = 7
    /\ Len(series_data[1].books) = 7
    /\ series_data[1].books[4].isfdb_title_id = 4
    /\ series_data[1].books[4].position = PyFloat(4, 0)
    /\ \A e \in 1..Len(series_data) : series_data[e].series_id # 2

\* C14: with merge mode on, a series whose books were merged into a target
\* is not an entry of its own in the resolver's output, whatever the target
\* names are.
C14_MergedChildNotAnEntry ==
    Resolved /\ merge_children =>
        \A e \in 1..Len(series_data) :
            ~\E f \in 1..Len(found_series) :
                /\ series_data[e].series_id \in
                       {c.series_id : c \in ChildrenOf(found_series[f].s.series_id)}
                /\ TitlesOf(series_data[e].series_id) # {}

Events == Range(trace)

\* C17: a run that found no target in the catalog ends without connecting to
\* the destination store, a run whose destination file is absent ends before
\* any catalog query or connection, and a run that found some of its targets
\* goes on to the destination store with the ones it found.
C17_FatalBeforeAnyWrite ==
    /\ rpc \in {"exit", "return", "import", "bulk"} /\ target_names # {} =>
          IF find_series_ids(target_names) = <<>>
          THEN rpc \in {"exit", "return"} /\ "ns_connect" \notin Events
          ELSE /\ rpc \in {"import", "bulk"}
               /\ FoundIds(found_series) =
                     {r.series_id : r \in {x \in Range(ResolverSeries) :
                         \E n \in target_names : Lower(n) = Lower(x.series_title)}}
    /\ ~store_exists =>
          /\ rpc \in {"main", "exit"}
          /\ Events \subseteq {"exit"}
          /\ series_data = <<>>

\* A run whose only name is not in the catalog queried the catalog and ended.
C17_Witness ==
    /\ rpc = "exit" /\ store_exists /\ ~from_db
    /\ target_names = {<<"z">>}
    /\ trace = <<"catalog_query", "exit">>

(***************************************************************************)
(* Claims about normalize, checked under SpecNorm.                         *)
(***************************************************************************)
\* The letters of a name with their case forgotten, the other characters as
\* they are.
CaseForgotten(x) ==
    [k \in 1..Len(x) |->
        IF x[k] \in {CapitalSigma, SmallSigma, FinalSigma} THEN CapitalSigma
        ELSE IF \E j \in 1..Len(LowerChars) : LowerChars[j] = x[k]
        THEN UpperChars[CHOOSE j \in 1..Len(LowerChars) : LowerChars[j] = x[k]]
        ELSE x[k]]
OnlyCaseDiffers(x, y) == CaseForgotten(x) = CaseForgotten(y)

\* A name with its punctuation characters left out.
PunctuationForgotten(x) == SelectSeq(x, LAMBDA c : IsWord(c) \/ IsSpace(c))
OnlyPunctuationDiffers(x, y) == PunctuationForgotten(x) = PunctuationForgotten(y)

\* C15: normalize applied to its own result returns it unchanged, and two
\* names that differ only in the case of letters, or only in punctuation
\* characters, have the same normalized form.
C15_NormalizeIdempotentAndInsensitive ==
    norm_out.done =>
        /\ norm_out.again = norm_out.x
        /\ OnlyCaseDiffers(norm_x, norm_y) => norm_out.x = norm_out.y
        /\ OnlyPunctuationDiffers(norm_x, norm_y) => norm_out.x = norm_out.y

(***************************************************************************)
(* Claims about the title filter, checked under SpecTitle.                 *)
(***************************************************************************)
TitlesReturned(res) ==
    UNION {{res.titles[sid][k].title_title : k \in 1..Len(res.titles[sid])} :
              sid \in DOMAIN res.titles}

\* C16: is_excluded_title is true exactly for the empty title and the titles
\* that match a pattern of the denylist, whatever their letter case, so the
\* examples of excerpts, appendices and preludes are excluded and the book
\* titles are not; and no backend returns an excluded title.
C16_TitleFilter ==
    /\ title_out.done =>
          title_out.excluded = (title_in = <<>> \/ title_in \in DenylistedTitles)
    /\ \A res \in {res_sqlite, res_dump} :
          res.done =>
              /\ \A t \in TitlesReturned(res) : t # <<>> /\ t \notin DenylistedTitles
              /\ title_in \in BookTitles => title_in \in TitlesReturned(res)

\* "Prelude to the Stormlight Archive" was found excluded, and neither
\* backend returned it.
C16_Witness ==
    /\ title_in = <<"P", "r", "e", "l", "u", "d", "e", " ", "t", "o", " ", "t", "h", "e", " ", "S", "t", "o", "r", "m", "l", "i", "g", "h", "t", " ", "A", "r", "c", "h", "i", "v", "e">>
    /\ title_out.done /\ title_out.excluded
    /\ res_sqlite.done /\ res_dump.done
    /\ TitlesReturned(res_sqlite) = {} /\ TitlesReturned(res_dump) = {}

(***************************************************************************)
(* Claims about the batching of the indexed backend, under SpecBatch.      *)
(***************************************************************************)
\* C18: whatever the number of identifiers asked for, no statement of an
\* identifier-set query binds more than 999 parameters (nor, being a batch,
\* more than 900 identifiers), and the query returns what one statement
\* over all the identifiers would.
C18_BatchesUnderCeiling ==
    q_result.done =>
        /\ \A k \in 1..Len(statements) : statements[k].params <= 999
        /\ ~q_result.error
        /\ q_result.ids = Range(q_ids) \cap table_ids

(***************************************************************************)
(* Claims about the bulk backfill and about newly inserted series, under   *)
(* Spec.                                                                   *)
(***************************************************************************)
\* the fields of a series row the backfill never writes
KeptFields(r) ==
    [id |-> r.id, name |-> r.name, name_normalized |-> r.name_normalized,
     author |-> r.author, total_books |-> r.total_books, year_start |-> r.year_start,
     year_end |-> r.year_end, confidence |-> r.confidence, verified |-> r.verified,
     created_at |-> r.created_at]

\* the catalog parents the run resolved
ResolvedParents == {entries[k].parent_info : k \in 1..Len(entries)} \ {NoParent}

IsParentStub(r) ==
    \E p \in ResolvedParents :
        /\ r.isfdb_id = p.series_id /\ r.name = p.series_title
        /\ r.total_books = 0 /\ r.parent_series_id = 0

\* table new is table old after a backfill: the old rows with at most the
\* external identifier, the parent link and the update time changed, then
\* parent stubs
BackfillOf(old, new) ==
    /\ Len(new) >= Len(old)
    /\ \A k \in 1..Len(old) : KeptFields(new[k]) = KeptFields(old[k])
    /\ \A k \in (Len(old) + 1)..Len(new) : IsParentStub(new[k])

NameUnmatched == SelectByName(series, normalize(entries[idx].series_title)) = 0

\* C19: a step of run_bulk_import inserts no series_book and no source_data
\* row; on the series table it changes nothing of an existing row but
\* isfdb_id, parent_series_id and updated_at, appends only parent stubs of
\* resolved catalog parents, and writes nothing for a name the store does
\* not hold; what the run commits differs from what was committed before
\* in the same way only.
C19_BulkOnlyBackfills ==
    [][pc = "bulk" =>
          /\ series_book' = series_book
          /\ source_data' = source_data
          /\ durable'.series_book = durable.series_book
          /\ durable'.source_data = durable.source_data
          /\ BackfillOf(durable.series, durable'.series)
          /\ pc' = "bulk" =>
                /\ BackfillOf(series, series')
                /\ NameUnmatched => series' = series]_vars

\* the run has skipped a name the store does not hold, set an external
\* identifier and a parent link, and created a parent stub
C19_Witness ==
    /\ pc = "bulk" /\ ~dry_run /\ idx > Len(entries)
    /\ counts.parent_stubs_created > 0
    /\ counts.updated_isfdb_id > 0 /\ counts.updated_parent > 0
    /\ Len(series) > Len(durable.series)
    /\ \E j \in 1..Len(entries) :
          SelectByName(durable.series, normalize(entries[j].series_title)) = 0
    /\ \E k \in 1..Len(durable.series) : series[k] # durable.series[k]

\* the rows of a table about the series with this id
RowsAbout(table, id) == {k \in 1..Len(table) : table[k].series_id = id}

\* the book rows of one inserted entry, in the order of the entry's books
IsBookRowOf(row, id, b) ==
    /\ row.series_id = id /\ row.title = b.title /\ row.position = b.position
    /\ row.year_published = b.year /\ row.confidence = 95

\* an import step that inserted the series of the current entry
InsertsSeries ==
    /\ pc = "import" /\ ~dry_run
    /\ counts'.series_inserted = counts.series_inserted + 1

InsertedRow == series'[Len(series')]

NewSeriesHolds ==
    LET e == entries[idx]
        r == InsertedRow
        n == Len(e.books)
    IN  /\ Len(series') > Len(series)
        /\ \A k \in 1..Len(series) : series[k].id # r.id
        /\ r.isfdb_id = e.series_id /\ r.name = e.series_title
        /\ r.total_books = n
        /\ r.year_start = (IF Years(e.books) = {} THEN 0 ELSE Min(Years(e.books)))
        /\ r.year_end = (IF Years(e.books) = {} THEN 0 ELSE Max(Years(e.books)))
        /\ r.confidence = 95 /\ r.verified = 0
        /\ Len(series_book') = Len(series_book) + n
        /\ SubSeq(series_book', 1, Len(series_book)) = series_book
        /\ \A k \in 1..n : IsBookRowOf(series_book'[Len(series_book) + k], r.id, e.books[k])
        /\ RowsAbout(series_book', r.id) = (Len(series_book) + 1)..(Len(series_book) + n)
        /\ Len(source_data') = Len(source_data) + 1
        /\ SubSeq(source_data', 1, Len(source_data)) = source_data
        /\ RowsAbout(source_data', r.id) = {Len(source_data')}
        /\ source_data'[Len(source_data')].book_count = n
        \* the parent stub the same step may have created has no records
        /\ \A k \in (Len(series) + 1)..(Len(series') - 1) :
              /\ RowsAbout(source_data', series'[k].id) = {}
              /\ RowsAbout(series_book', series'[k].id) = {}

\* any other step of a run: no book or provenance row is created or
\* changed (the tables are what they were, or what was committed last)
NoRecordsTouched ==
    \/ series_book' = series_book /\ source_data' = source_data
    \/ series_book' = durable.series_book /\ source_data' = durable.source_data

\* C20: a full import that inserts a new series gives it one series_book
\* row per resolved book, total_books equal to their number, year_start and
\* year_end the least and greatest book year that is present (none when no
\* book has a year), confidence 0.95, verified false and exactly one
\* source_data row; no other step creates or changes a source_data row, so
\* a series that existed and a parent stub get none.
C20_NewSeriesRecords ==
    [][IF InsertsSeries THEN NewSeriesHolds ELSE NoRecordsTouched]_vars

\* committed: a new series of three books, one of them without a year, with
\* its three book rows and one provenance row, beside a series that existed
\* before the run, which has none
C20_Witness ==
    /\ pc = "idle"
    /\ series = durable.series /\ source_data = durable.source_data
    /\ series_book = durable.series_book
    /\ \E k \in 1..Len(series) :
          /\ series[k].created_at > 0 /\ series[k].total_books = 3
          /\ series[k].year_start = 1995 /\ series[k].year_end = 2001
          /\ Cardinality(RowsAbout(series_book, series[k].id)) = 3
          /\ Cardinality(RowsAbout(source_data, series[k].id)) = 1
    /\ \E k \in 1..Len(series) :
          /\ series[k].created_at = 0
          /\ RowsAbout(source_data, series[k].id) = {}
          /\ RowsAbout(series_book, series[k].id) = {}

(***************************************************************************)
(* Claims about parent stubs and about matching, under Spec.               *)
(***************************************************************************)
\* a step of a real run that created a parent stub
CreatesStub(mode) ==
    /\ pc = mode /\ ~dry_run
    /\ \E p \in DOMAIN parent_stub_ids' \ DOMAIN parent_stub_ids :
          \A k \in 1..Len(series) : series[k].id # parent_stub_ids'[p]

\* the stub the step created, and the catalog identifier it stands for
StubKey == CHOOSE p \in DOMAIN parent_stub_ids' \ DOMAIN parent_stub_ids : TRUE
StubCreated == CHOOSE r \in Range(series') : r.id = parent_stub_ids'[StubKey]

\* C21: a parent stub created by the bulk backfill has the field values of
\* a parent stub of the full import: confidence 0.9, not verified, no
\* books, the parent's catalog identifier as external identifier, and
\* name_normalized = normalize(name).
C21_BulkStubLikeImportStub ==
    [][CreatesStub("bulk") =>
          /\ StubCreated.confidence = 90
          /\ StubCreated.verified = 0
          /\ StubCreated.total_books = 0
          /\ StubCreated.isfdb_id = StubKey
          /\ StubCreated.name_normalized = normalize(StubCreated.name)]_vars

\* the catalog identifiers the step added to the run's map with an
\* identifier no record held: the parents it created a stub for
NewStubKeys ==
    {p \in DOMAIN parent_stub_ids' \ DOMAIN parent_stub_ids :
        \A k \in 1..Len(series) : series[k].id # parent_stub_ids'[p]}

\* the stub records of the table that stand for catalog identifier p and
\* were inserted at time t
StubRows(ser, p, t) ==
    {k \in 1..Len(ser) : /\ ser[k].isfdb_id = p /\ ser[k].created_at = t
                         /\ ser[k].total_books = 0}

InStore(p) ==
    \E k \in 1..Len(series) :
        \/ series[k].isfdb_id = p
        \/ series[k].name_normalized = normalize(CatalogRow(p).series_title)

\* a step inside a run obeys the rule of one stub for a parent
StubRule ==
    /\ \A p \in DOMAIN parent_stub_ids :
          p \in DOMAIN parent_stub_ids' /\ parent_stub_ids'[p] = parent_stub_ids[p]
    /\ \A p \in NewStubKeys : ~InStore(p)
    /\ counts'.parent_stubs_created - counts.parent_stubs_created
          <= Cardinality(NewStubKeys)
    /\ \A p \in CatalogIds : Cardinality(StubRows(series', p, now)) <= 1

\* C22: in one run, preview or not, a parent's catalog identifier gets at
\* most one stub: the run's map keeps the destination identifier it gave a
\* parent, a step creates a stub only for a parent the store holds neither
\* by external identifier nor by normalized name, the bulk counter of stubs
\* grows only with a new entry of the map, and the table never holds two
\* stubs of one run for one parent.
C22_OneStubPerParent ==
    [][(pc \in {"import", "bulk"} /\ pc' = pc) => StubRule]_vars

\* a run created a stub for parent 3 while processing its first entry, and
\* its second entry named the same parent
C22_Witness ==
    /\ pc \in {"import", "bulk"} /\ idx = 3
    /\ entries[1].parent_info.series_id = 3 /\ entries[2].parent_info.series_id = 3
    /\ 3 \in DOMAIN parent_stub_ids
    /\ \A k \in 1..Len(durable.series) : durable.series[k].id # parent_stub_ids[3]
    /\ pc = "bulk" => counts.parent_stubs_created = 1

\* the record of the store holding the entry's external identifier, and the
\* first record holding its normalized name (0: none)
IdMatch(e) == SelectByIsfdb(series, e.series_id)
NameMatch(e) == SelectByName(series, normalize(e.series_title))

\* the record the run takes for the existing series of its current entry
SelectedExisting ==
    IF pc = "import" THEN Existing(entries[idx]) ELSE NameMatch(entries[idx])

\* the record resolve_parent takes for the parent of the current entry
SelectedParent ==
    resolve_parent(series, <<>>, entries[idx], "", TRUE, now).ret

\* C23: when one record holds the entry's external identifier and another
\* one its normalized name, the run selects the record with the identifier
\* as the existing series, and resolve_parent does so for the parent.
C23_IdentifierMatchFirst ==
    (pc \in {"import", "bulk"} /\ idx <= Len(entries)) =>
        LET e == entries[idx]
            p == entries[idx].parent_info
        IN  /\ (IdMatch(e) # 0 /\ NameMatch(e) # 0 /\ IdMatch(e) # NameMatch(e))
                  => SelectedExisting = IdMatch(e)
            /\ (p # NoParent /\ SelectByIsfdb(series, p.series_id) # 0)
                  => SelectedParent = series[SelectByIsfdb(series, p.series_id)].id

(***************************************************************************)
(* Claims about the catalog queries, under SpecBackend and SpecFind.       *)
(***************************************************************************)
\* a title record the query is to return
TitleWanted(r) ==
    /\ r.series_id \in q_series_ids
    /\ r.title_ttype \in {"NOVEL", "NOVELLA", "SHORTFICTION"}
    /\ r.title_parent \in {<<>>, <<0>>}
    /\ ~is_excluded_title(r.title_title)
    /\ (r.title_language = <<>> \/ r.title_language = <<17>>)

TitlesWanted == TitlesResult(SelectSeq(titles_table, TitleWanted))

\* C24: find_titles_for_series of either backend returns exactly the titles
\* of the requested series with an allowed work type, no parent title, a
\* title the Title Filter lets pass, and a language tag that is absent or
\* the primary language.
C24_TitlesReturnedExactly ==
    /\ res_sqlite.done => res_sqlite = TitlesWanted
    /\ res_dump.done => res_dump = TitlesWanted

\* name n and a catalog title are equal but for the case of their letters
SameButCase(n, title) == title # <<>> /\ Lower(title[1]) = Lower(n)

\* the input names that have a series in the catalog
NamesInCatalog ==
    {n \in Range(find_names) :
        \E k \in 1..Len(series_table) : SameButCase(n, series_table[k].series_title)}

FoundRight(res) ==
    /\ DOMAIN res.found = NamesInCatalog
    /\ \A n \in DOMAIN res.found : SameButCase(n, res.found[n].series_title)

\* C25: find_series_ids of either backend returns a mapping whose keys are
\* exactly the input names, as they were given, that equal a catalog series
\* title but for case, each mapped to such a series; two input names that
\* differ in case only are both keys.
C25_FoundKeyedByInputNames ==
    /\ found_sqlite.done => FoundRight(found_sqlite)
    /\ found_dump.done => FoundRight(found_dump)

\* the number of the entry's books by author a, and the first of them
BooksBy(e, a) == {k \in 1..Len(e.books) : e.books[k].author = a}

\* a is the author the series of entry e is to carry ("": none)
IsPrimaryAuthorOf(a, e) ==
    IF \A k \in 1..Len(e.books) : e.books[k].author = ""
    THEN a = ""
    ELSE /\ a # "" /\ BooksBy(e, a) # {}
         /\ \A k \in 1..Len(e.books) :
               LET b == e.books[k].author
               IN  b # "" =>
                     \/ Cardinality(BooksBy(e, a)) > Cardinality(BooksBy(e, b))
                     \/ /\ Cardinality(BooksBy(e, a)) = Cardinality(BooksBy(e, b))
                        /\ Min(BooksBy(e, a)) <= Min(BooksBy(e, b))

\* C26: the series record a full import inserts for an entry, and a parent
\* stub it creates while processing the entry, carry as author the author
\* of most books of the entry, the first such author in book order when
\* several have as many, and none when no book of the entry has an author.
C26_PrimaryAuthorStored ==
    [][(pc = "import" /\ pc' = "import") =>
          \A k \in (Len(series) + 1)..Len(series') :
              IsPrimaryAuthorOf(series'[k].author, entries[idx])]_vars

\* committed: the series of entry 4, whose first book is by Ann and whose
\* other two are by Bob, and the parent stub created with it, both by Bob
C26_Witness ==
    /\ pc = "idle" /\ series = durable.series
    /\ \E k \in 1..Len(series) :
          /\ series[k].isfdb_id = 4 /\ series[k].total_books = 3
          /\ series[k].author = "Bob"
    /\ \E k \in 1..Len(series) :
          /\ series[k].isfdb_id = 3 /\ series[k].total_books = 0
          /\ series[k].created_at > 0 /\ series[k].author = "Bob"

\* C27: after any run no series record committed to the store is its own
\* parent.
C27_NoSeriesItsOwnParent ==
    \A k \in 1..Len(durable.series) :
        durable.series[k].parent_series_id # durable.series[k].id

\* no two records of the table share an external identifier
UniqueIsfdb(ser) ==
    \A j, k \in 1..Len(ser) :
        (j # k /\ ser[j].isfdb_id # 0) => ser[j].isfdb_id # ser[k].isfdb_id

\* C28: a run that starts on a store without two series records sharing an
\* external identifier commits a store without two such records.
C28_IdentifiersStayUnique ==
    [][UniqueIsfdb(durable.series) => UniqueIsfdb(durable'.series)]_vars

\* the records a commit adds to the store that are parent stubs
StubsCommitted ==
    {k \in (Len(durable.series) + 1)..Len(durable'.series) :
        durable'.series[k].total_books = 0}

\* C29: every parent stub a real run inserts is, when the run commits, the
\* parent of at least one series record.
C29_StubsAreLinked ==
    [][\A k \in StubsCommitted :
          \E j \in 1..Len(durable'.series) :
              durable'.series[j].parent_series_id = durable'.series[k].id]_vars

\* the entry's series had no record in the store when the run began
NoRecordBefore(e) ==
    \A k \in 1..Len(durable.series) :
        /\ durable.series[k].isfdb_id # e.series_id
        /\ durable.series[k].name_normalized # normalize(e.series_title)

\* the committed store holds the entry's series with all its books
HoldsWithBooks(e) ==
    \E k \in 1..Len(durable'.series) :
        /\ durable'.series[k].isfdb_id = e.series_id
        /\ durable'.series[k].total_books = Len(e.books)
        /\ Cardinality(RowsAbout(durable'.series_book, durable'.series[k].id))
               = Len(e.books)

\* the commit of a real full import
CommitsImport ==
    /\ pc = "import" /\ ~dry_run /\ idx > Len(entries)
    /\ Len(log') = Len(log) + 1 /\ log'[Len(log')].done

AllNewHeld ==
    \A n \in 1..Len(entries) :
        NoRecordBefore(entries[n]) => HoldsWithBooks(entries[n])

\* C30: a full import gives every entry whose series had no record before
\* the run one series_book row per resolved book and total_books equal to
\* their number, whatever the order of the entries.
C30_OrderIndependent == [][CommitsImport => AllNewHeld]_vars

====
